---- MODULE Spec2Model ----
(***************************************************************************)
(* lambdalith: an event router for AWS Lambda.  This module models the     *)
(* router: route registration and first-match lookup (SqsRouter and the    *)
(* routers of the other shapes), the batch engine that runs the records of *)
(* one event sequentially or concurrently and reports the failed ones      *)
(* (BatchRouter), the middleware composer (composeMiddleware) that wraps   *)
(* the handler of one record, the Context instances and their key/value    *)
(* stores (contexts.ts), the classification of an event by its shape       *)
(* (detectEventType), and the decoding of DynamoDB attribute values        *)
(* (unmarshall).                                                           *)
(*                                                                         *)
(* Every async function is modelled by the steps between its suspension    *)
(* points.  The state of one processRecord call is a record                *)
(*   [st, route, currentIndex, stack, err, handled, trace]                 *)
(* where stack is the chain of dispatch() calls that are awaiting one      *)
(* another, err the error that is propagating ("none" when there is none)  *)
(* and trace the user functions the call has run, in order.                *)
(***************************************************************************)
EXTENDS Integers, Sequences, FiniteSets, TLC

\* ---------------------------------------------------------------- bounds
\* Batches (Spec): records of one event, routes of the router.
MaxRecords == 3
MaxBatchRoutes == 1
\* Routing (SpecRoutes): routes of the router, records of one event.
MaxRoutes == 2
MaxRouteRecords == 2
\* One chain invocation (SpecChain): middleware of the router.
MaxMw == 3
\* Batches behind middleware (SpecMw): records of one event, middleware.
MaxMwRecords == 3
MaxBatchMw == 1
\* The four shapes (SpecShapes): records of one batch event, middleware.
MaxShapeRecords == 1
MaxShapeMw == 1
\* Filtered middleware (SpecFilters): middleware of the router.
MaxFilterMw == 2
MaxStoreRecords == 2
MaxStoreMw == 2
\* EventBridge routes (SpecEvents).
MaxEventRoutes == 2
\* Elements of a list of attribute values (SpecUnmarshall).
MaxItems == 2
\* Registrations (SpecRegister).
MaxRegistered == 3
\* DynamoDB Streams routes and records (SpecStream).
MaxStreamRoutes == 2
MaxStreamRecords == 2
\* Termination (SpecLive): records of one event, middleware of the router.
MaxLiveRecords == 2
MaxLiveMw == 1
\* SNS events (SpecSns): routes of the router, records of one event.
MaxSnsRoutes == 2
MaxSnsRecords == 2

\* ---------------------------------------------------------------- values
Undefined == "undefined"
Queues == {"q1", "q2"}
Topics == {"t1"}
SnsTopics == {"t1", "t2"}
Sources == {"s1"}
DetailTypes == {"d1"}

\* The sources and detail types of events, and the values the fields of an
\* EventBridge matcher take: absent, the empty string, or one of them.
SourceNames == {"s1", "s2"}
DetailTypeNames == {"d1", "d2"}
MatcherSources == {Undefined, ""} \cup SourceNames
MatcherDetailTypes == {Undefined, ""} \cup DetailTypeNames
EventSources == {"sqs", "sns", "event", "dynamodb"}
Tables == {"tb1"}
EventNames == {"INSERT", "MODIFY"}

\* What a middleware function does with next():
\*   once    before; await next(); after
\*   none    before; return                      (never calls next)
\*   throws  before; throw
\*   twice   before; await next(); await next(); after
\*   guard   before; try { await next() } catch { throw new Error() }; after
\*   swallow before; try { await next() } catch { }; after
MwKinds == {"once", "none", "throws", "twice", "guard", "swallow"}

\* A middleware that looks at the record:
\*   cond    before; if (<test on the record>) throw; await next(); after
BatchMwKinds == {"once", "cond"}

\* Middleware that use the store of the context:
\*   writer  c.set(k1, v); await next(); c.get(k1); c.get(k2)
\*   reader  c.get(k1); c.get(k2); await next(); c.get(k1); c.get(k2)
StoreMwKinds == {"writer", "reader"}

\* Errors: E thrown by a handler or middleware, P "next() called multiple
\* times", R thrown by a guard's catch block, H thrown by the error handler,
\* N thrown by the not-found handler.
NoError == "none"

VARIABLES
    routes,             \* SqsRouter.routes
    routers,            \* the routes of SnsRouter, EventBridgeRouter, DynamoDBRouter
    middlewareEntries,  \* EventRouter.middlewareEntries
    errorHandler,       \* EventRouter.errorHandler is set
    notFoundHandler,    \* EventRouter.notFoundHandler is set
    phase,              \* the Lambda handler: idle, executing, done
    payload,            \* the event passed to the Lambda handler, when unclassified
    shape,              \* detected.type of the running invocation
    records,            \* event.Records of the running invocation
    mode,               \* the isSequential decision of handle()
    seqIndex,           \* the loop variable i of processSequentially
    proc,               \* the processRecord call of each record
    outOfOrder,         \* a record settled while an earlier one was running
    response,           \* batchItemFailures of the returned response
    result,             \* how the promise of the Lambda handler settled
    contexts            \* the Context instances created by each record's call

vars == <<routes, routers, middlewareEntries, errorHandler, notFoundHandler, phase,
          payload, shape, records, mode, seqIndex, proc, outOfOrder, response,
          result, contexts>>

router == <<routes, routers, middlewareEntries, errorHandler, notFoundHandler>>

\* The promise of the Lambda handler: pending ("none"), or resolved with a
\* batch response ("batch") or with undefined, or rejected ("throws") with error.
NoResult == [returns |-> "none", error |-> NoError]

Returned(what) == [returns |-> what, error |-> NoError]

Rejected(e) == [returns |-> "throws", error |-> e]

\* No event is waiting to be classified.
NoPayload == [kind |-> "none"]

\* ------------------------------------------------------ route matching
\* `!route.matcher`
Falsy(matcher) == matcher = Undefined \/ matcher = ""

RouteMatches(route, queue) == Falsy(route.matcher) \/ route.matcher = queue

RECURSIVE matchFrom(_, _, _)
matchFrom(rs, queue, k) ==
    IF k > Len(rs) THEN 0
    ELSE IF RouteMatches(rs[k], queue) THEN k
    ELSE matchFrom(rs, queue, k + 1)

RECURSIVE matchDownFrom(_, _, _)
matchDownFrom(rs, queue, k) ==
    IF k < 1 THEN 0
    ELSE IF RouteMatches(rs[k], queue) THEN k
    ELSE matchDownFrom(rs, queue, k - 1)

\* Mutant: the routes are scanned from the last registered to the first.
matchRouteLast(rs, queue) == matchDownFrom(rs, queue, Len(rs))

\* The index of the matched route, 0 for undefined.
matchRoute(rs, queue) == matchFrom(rs, queue, 1)

findRouteForRecord(rs, record) == matchRoute(rs, record.queue)

getRecordId(record) == record.messageId

\* Mutant: the batch is sequential when any record's route is.
isSequentialAny(rs, recs) ==
    \E r \in 1..Len(recs) :
        LET k == findRouteForRecord(rs, recs[r])
        IN  k # 0 /\ rs[k].sequential = TRUE

isSequential(rs, recs) ==
    IF Len(recs) = 0 THEN FALSE
    ELSE LET k == findRouteForRecord(rs, recs[1])
         IN  k # 0 /\ rs[k].sequential = TRUE

\* Mutant: the filter of an entry is ignored.
getMiddlewareForAny(entries, type) ==
    [j \in 1..Len(entries) |-> [id |-> j, kind |-> entries[j].kind]]

\* ------------------------------------------------------ middleware
\* The entries that apply to an event type, in registration order; id is the
\* place of the entry in middlewareEntries.
getMiddlewareFor(entries, type) ==
    LET ids == SelectSeq([k \in 1..Len(entries) |-> k],
                         LAMBDA k : Falsy(entries[k].filter) \/ entries[k].filter = type)
    IN  [j \in 1..Len(ids) |-> [id |-> ids[j], kind |-> entries[ids[j]].kind]]

Ev(op, at) == [op |-> op, at |-> at]

Log(p, op, at) == [p EXCEPT !.trace = Append(@, Ev(op, at))]

Top(p) == p.stack[Len(p.stack)]

Pop(p) == [p EXCEPT !.stack = SubSeq(@, 1, Len(@) - 1)]

SetPhase(p, ph) == [p EXCEPT !.stack[Len(p.stack)].phase = ph]

\* A throw that raises nothing: the promise resolves.
throwNothing(p, e) == [p EXCEPT !.err = NoError]

Throw(p, e) == [p EXCEPT !.err = e]

\* Mutant: dispatch without the double-call check.
dispatchUnchecked(p, index) ==
    [p EXCEPT !.currentIndex = index,
              !.stack = Append(@, [index |-> index, phase |-> "start"])]

\* Mutant: the double-call check compares with < instead of <=.
dispatchOffByOne(p, index) ==
    IF index < p.currentIndex
    THEN Throw(p, "P")
    ELSE [p EXCEPT !.currentIndex = index,
                   !.stack = Append(@, [index |-> index, phase |-> "start"])]

\* dispatch(index) up to the call of the middleware or the handler: the
\* double-call check, then the entry becomes the innermost pending call.
dispatch(p, index) ==
    IF index <= p.currentIndex
    THEN Throw(p, "P")
    ELSE [p EXCEPT !.currentIndex = index,
                   !.stack = Append(@, [index |-> index, phase |-> "start"])]

\* next() called by the middleware at index: dispatch(index + 1).  A throw of
\* dispatch leaves the middleware, none of which guards against it at the call.
next(p, index) ==
    LET q == dispatch(p, index + 1)
    IN  IF q.err # NoError THEN Pop(q) ELSE q

\* Mutant: a middleware that does not call next() ends the chain.
autoStop(p, index) == Pop(p)

\* `if (!nextCalled.value) await dispatch(index + 1)` when next was not called
autoContinue(p, index) == dispatch(SetPhase(p, "auto"), index + 1)

\* Mutant: the last middleware is taken for the handler.
isMiddlewareExceptLast(index, n) == index < n - 1

\* `index < middlewares.length`: the entry at index is a middleware
isMiddleware(index, n) == index < n

\* One step of the chain of p: the innermost pending call runs to its next
\* suspension point.  mws are the middleware of the chain, outcome what the
\* handler does when it is the one that runs.
chainStep(p, mws, outcome) ==
    LET f == Top(p)
        mw == IF isMiddleware(f.index, Len(mws))
              THEN mws[f.index + 1] ELSE [id |-> 0, kind |-> "handler"]
    IN
    CASE f.phase = "start" /\ mw.kind = "handler" ->
            LET q == Pop(Log(p, "handler", p.route))
            IN  IF outcome = "throw" THEN Throw(q, "E") ELSE q
      [] f.phase = "start" /\ mw.kind = "cond" /\ outcome = "throw" ->
            Throw(Pop(Log(p, "before", mw.id)), "E")
      [] f.phase = "start" /\ mw.kind = "throws" ->
            Throw(Pop(Log(p, "before", mw.id)), "E")
      [] f.phase = "start" /\ mw.kind = "none" ->
            autoContinue(Log(p, "before", mw.id), f.index)
      [] f.phase = "start" ->
            next(SetPhase(Log(p, "before", mw.id), "next1"), f.index)
      [] f.phase = "next1" /\ p.err = NoError /\ mw.kind = "twice" ->
            next(SetPhase(Log(p, "nextAgain", mw.id), "next2"), f.index)
      [] f.phase = "next1" /\ p.err # NoError /\ mw.kind = "guard" ->
            Throw(Pop(Log(p, "caught", mw.id)), "R")
      [] f.phase = "next1" /\ p.err # NoError /\ mw.kind = "swallow" ->
            Throw(Pop(Log(Log(p, "caught", mw.id), "after", mw.id)), NoError)
      [] f.phase \in {"next1", "next2"} /\ p.err = NoError ->
            Pop(Log(p, "after", mw.id))
      [] OTHER -> Pop(p)

\* Mutant: the chain starts at the second entry.
composeMiddlewareFromSecond(p) == dispatch([p EXCEPT !.currentIndex = -1], 1)

\* composeMiddleware(middleware, route.handler)(ctx) up to its first
\* suspension point.
composeMiddleware(p) == dispatch([p EXCEPT !.currentIndex = -1], 0)

\* ------------------------------------------------------ processRecord
NewCall == [st |-> "pending", route |-> 0, currentIndex |-> -1, stack |-> <<>>,
            err |-> NoError, handled |-> NoError, trace |-> <<>>]

\* Mutant: a record without a route is an error.
processRecordStrict(rs, nf, record) ==
    LET k == matchRoute(rs, record.queue)
    IN  IF k = 0
        THEN [NewCall EXCEPT !.st = "rejected", !.err = "E"]
        ELSE composeMiddleware([NewCall EXCEPT !.st = "chain", !.route = k])

\* Mutant: the chain is composed and run whether or not a route matched.
processRecordChainAlways(rs, nf, record) ==
    composeMiddleware([NewCall EXCEPT !.st = "chain",
                                      !.route = matchRoute(rs, record.queue)])

\* processRecord up to its first suspension point.
processRecord(rs, nf, record) ==
    LET k == matchRoute(rs, record.queue)
    IN  IF k = 0
        THEN IF nf
             THEN Log([NewCall EXCEPT !.st = "notFound"], "notFound", 0)
             ELSE [NewCall EXCEPT !.st = "resolved"]
        ELSE composeMiddleware([NewCall EXCEPT !.st = "chain", !.route = k])

\* EventBridgeRouter.matchHandler: the index of the first route without
\* options, or whose present option fields equal the event's; 0 for undefined.
RECURSIVE matchHandlerFrom(_, _, _, _)
matchHandlerFrom(rs, source, detailType, k) ==
    IF k > Len(rs) THEN 0
    ELSE IF ~rs[k].options THEN k
    ELSE IF /\ (Falsy(rs[k].source) \/ rs[k].source = source)
            /\ (Falsy(rs[k].detailType) \/ rs[k].detailType = detailType)
         THEN k
    ELSE matchHandlerFrom(rs, source, detailType, k + 1)

\* Mutant: the detailType of a route is not looked at.
matchHandlerBySource(rs, source, detailType) ==
    matchHandlerFrom([k \in 1..Len(rs) |-> [rs[k] EXCEPT !.detailType = Undefined]],
                     source, detailType, 1)

matchHandler(rs, source, detailType) == matchHandlerFrom(rs, source, detailType, 1)

\* SnsRouter.handle for the first record, up to its first suspension point.
handleSns(rs, nf, record) ==
    LET k == matchFrom(rs, record.topic, 1)
    IN  IF k = 0
        THEN IF nf
             THEN Log([NewCall EXCEPT !.st = "notFound"], "notFound", 0)
             ELSE [NewCall EXCEPT !.st = "resolved"]
        ELSE composeMiddleware([NewCall EXCEPT !.st = "chain", !.route = k])

\* EventBridgeRouter.handle up to its first suspension point.
handleEventBridge(rs, nf, event) ==
    LET k == matchHandler(rs, event.source, event.detailType)
    IN  IF k = 0
        THEN IF nf
             THEN Log([NewCall EXCEPT !.st = "notFound"], "notFound", 0)
             ELSE [NewCall EXCEPT !.st = "resolved"]
        ELSE composeMiddleware([NewCall EXCEPT !.st = "chain", !.route = k])

\* Mutant: an error handler that returns swallows the error.
afterErrorHandlerSwallowed(p) == [p EXCEPT !.st = "resolved"]

\* The catch block of processRecord once the error handler has returned:
\* `throw error`.
afterErrorHandler(p) == [p EXCEPT !.st = "rejected"]

\* Mutant: the catch block throws without calling the error handler.
afterChainUnhandled(p, eh) ==
    IF p.err = NoError THEN [p EXCEPT !.st = "resolved"]
    ELSE [p EXCEPT !.st = "rejected"]

\* Mutant: the error handler is called in a finally block.
afterChainFinally(p, eh) ==
    IF eh THEN Log([p EXCEPT !.st = "onError", !.handled = p.err], "onError", 0)
    ELSE IF p.err = NoError THEN [p EXCEPT !.st = "resolved"]
    ELSE [p EXCEPT !.st = "rejected"]

\* The chain has settled: the try block of processRecord ends, or its catch
\* block runs up to `await errorHandler(error, ctx)`.
afterChain(p, eh) ==
    IF p.err = NoError THEN [p EXCEPT !.st = "resolved"]
    ELSE IF eh THEN Log([p EXCEPT !.st = "onError", !.handled = p.err], "onError", 0)
    ELSE [p EXCEPT !.st = "rejected"]

\* One step of a processRecord call.
recordStep(p, mws, eh, outcome) ==
    CASE p.st = "chain" ->
            LET q == chainStep(p, mws, outcome)
            IN  IF q.stack = <<>> THEN afterChain(q, eh) ELSE q
      [] p.st = "notFound" ->
            IF outcome = "throw"
            THEN [p EXCEPT !.st = "rejected", !.err = "N"]
            ELSE [p EXCEPT !.st = "resolved"]
      [] p.st = "onError" ->
            IF outcome = "throw"
            THEN [p EXCEPT !.st = "rejected", !.err = "H"]
            ELSE afterErrorHandler(p)
      [] OTHER -> p

Settled(p) == p.st \in {"resolved", "rejected"}

Running(p) == p.st \in {"chain", "notFound", "onError"}

\* ------------------------------------------------------ detectEventType
\* An event, as far as detectEventType looks at it: what kind of value it is,
\* what its Records property is, what the first element of that list is, and
\* whether it has the top-level properties of an EventBridge event.
ValueKinds == {"null", "undefined", "number", "string", "object"}

EventSourceValues == {"aws:sqs", "aws:dynamodb", "aws:other", Undefined}

SnsValues == {Undefined, "null", "string", "objectWithoutTopicArn", "objectWithTopicArn"}

NoFirst == [kind |-> "none", eventSource |-> Undefined, Sns |-> Undefined]

FirstRecords ==
    {[kind |-> k, eventSource |-> Undefined, Sns |-> Undefined] :
        k \in ValueKinds \ {"object"}}
    \cup [kind : {"object"}, eventSource : EventSourceValues, Sns : SnsValues]

Payloads ==
    {[kind |-> k, Records |-> "absent", first |-> NoFirst,
      source |-> FALSE, detailType |-> FALSE, detail |-> FALSE] :
        k \in ValueKinds \ {"object"}}
    \cup [kind : {"object"}, Records : {"absent", "notArray", "empty"},
          first : {NoFirst}, source : BOOLEAN, detailType : BOOLEAN, detail : BOOLEAN]
    \cup [kind : {"object"}, Records : {"list"},
          first : FirstRecords, source : BOOLEAN, detailType : BOOLEAN, detail : BOOLEAN]

\* `!event || typeof event !== 'object'`
NotAnObject(event) == event.kind \in {"null", "undefined", "number", "string"}

\* `Array.isArray(e.Records) && e.Records.length > 0`
HasRecords(event) == event.Records = "list"

\* `firstRecord.eventSource`: reading a property of null or undefined throws a
\* TypeError; a number or a string has no such property.
ReadThrows(first) == first.kind \in {"null", "undefined"}

\* `firstRecord.Sns && typeof firstRecord.Sns === 'object' &&
\*  'TopicArn' in firstRecord.Sns`
HasTopicArn(first) ==
    /\ first.Sns \notin {Undefined, "null"}
    /\ first.Sns # "string"
    /\ first.Sns = "objectWithTopicArn"

\* detectEventType(event): the tag it returns, or the TypeError it throws.
detectEventType(event) ==
    IF NotAnObject(event) THEN Returned("unknown")
    ELSE IF HasRecords(event) /\ ReadThrows(event.first) THEN Rejected("T")
    ELSE IF HasRecords(event) /\ event.first.eventSource = "aws:sqs"
         THEN Returned("sqs")
    ELSE IF HasRecords(event) /\ HasTopicArn(event.first) THEN Returned("sns")
    ELSE IF HasRecords(event) /\ event.first.eventSource = "aws:dynamodb"
         THEN Returned("dynamodb")
    ELSE IF event.source /\ event.detailType /\ event.detail THEN Returned("event")
    ELSE Returned("unknown")

\* ------------------------------------------------------ unmarshall
\* A DynamoDB AttributeValue { <tag>: ... }: s is the string of S and B,
\* digits the characters of the string of N, b the value of BOOL, items the
\* elements of SS, NS, BS and L and the attributes of M, and key the name the
\* attribute has in the map that holds it.  The elements of SS and BS are
\* strings (tag "str"), those of NS strings of digits (tag "num").
Attribute(tag, s, digits, b, items) ==
    [tag |-> tag, s |-> s, digits |-> digits, b |-> b, items |-> items, key |-> ""]

Named(key, value) == [value EXCEPT !.key = key]

\* A JavaScript value: t is its type, s, n, b its value when it is a string,
\* a number or a boolean, items the elements of an array or the own
\* properties of an object in insertion order, key the name of the property
\* that holds it, and proto the prototype of an object.
Value(t, s, n, b, items) ==
    [t |-> t, s |-> s, n |-> n, b |-> b, items |-> items, key |-> "",
     proto |-> "Object.prototype"]

JsString(s) == Value("string", s, 0, FALSE, <<>>)
JsNumber(n) == Value("number", "", n, FALSE, <<>>)
JsBoolean(b) == Value("boolean", "", 0, b, <<>>)
JsNull == Value("null", "", 0, FALSE, <<>>)
JsUndefined == Value("undefined", "", 0, FALSE, <<>>)
JsArray(items) == Value("array", "", 0, FALSE, items)
JsObject(items) == Value("object", "", 0, FALSE, items)

DigitChars == <<"0", "1", "2", "3", "4", "5", "6", "7", "8", "9">>

DigitValue(c) == (CHOOSE d \in 1..10 : DigitChars[d] = c) - 1

\* Number(string) for the decimal text of an integer
RECURSIVE NaturalOf(_)
NaturalOf(digits) ==
    IF digits = <<>> THEN 0
    ELSE NaturalOf(SubSeq(digits, 1, Len(digits) - 1)) * 10
            + DigitValue(digits[Len(digits)])

Number(digits) ==
    IF digits = <<>> THEN 0
    ELSE IF Head(digits) = "-" THEN 0 - NaturalOf(Tail(digits))
    ELSE NaturalOf(digits)

\* `result[key] = value` on an object created by `{}`: the name __proto__ is
\* the accessor of Object.prototype, whose setter replaces the prototype of
\* the object when the value is an object or null and does nothing
\* otherwise; any other name becomes an own property.
assign(object, key, value) ==
    IF key = "__proto__"
    THEN IF value.t \in {"object", "array", "null"}
         THEN [object EXCEPT !.proto = "assigned"]
         ELSE object
    ELSE [object EXCEPT !.items = Append(@, Named(key, value))]

RECURSIVE unmarshallValue(_)
RECURSIVE unmarshallFrom(_, _, _)

\* The loop of unmarshall over Object.entries(item), from entry k on.
unmarshallFrom(object, item, k) ==
    IF k > Len(item) THEN object
    ELSE unmarshallFrom(assign(object, item[k].key, unmarshallValue(item[k])),
                        item, k + 1)

\* unmarshall(item)
unmarshall(item) == unmarshallFrom(JsObject(<<>>), item, 1)

\* unmarshallValue(value): the tags are tested in this order.
unmarshallValue(value) ==
    IF value.tag = "S" THEN JsString(value.s)
    ELSE IF value.tag = "N" THEN JsNumber(Number(value.digits))
    ELSE IF value.tag = "B" THEN JsString(value.s)
    ELSE IF value.tag = "SS"
         THEN JsArray([i \in 1..Len(value.items) |-> JsString(value.items[i].s)])
    ELSE IF value.tag = "NS"
         THEN JsArray([i \in 1..Len(value.items) |->
                          JsNumber(Number(value.items[i].digits))])
    ELSE IF value.tag = "BS"
         THEN JsArray([i \in 1..Len(value.items) |-> JsString(value.items[i].s)])
    ELSE IF value.tag = "M" THEN unmarshall(value.items)
    ELSE IF value.tag = "L"
         THEN JsArray([i \in 1..Len(value.items) |-> unmarshallValue(value.items[i])])
    ELSE IF value.tag = "NULL" THEN JsNull
    ELSE IF value.tag = "BOOL" THEN JsBoolean(value.b)
    ELSE JsUndefined

\* The attribute values the function is applied to: one of every tag and one
\* of a tag that does not exist, lists of up to MaxItems of them, maps of them
\* under the names of AttributeNames, and lists and maps of those.
StrElem(s) == Attribute("str", s, <<>>, FALSE, <<>>)
NumElem(digits) == Attribute("num", "", digits, FALSE, <<>>)

ScalarAttributes ==
    {Attribute("S", s, <<>>, FALSE, <<>>) : s \in {"hello", ""}}
    \cup {Attribute("N", "", d, FALSE, <<>>) :
            d \in {<<"0">>, <<"7">>, <<"4", "2">>, <<"-", "3">>, <<"1", "0", "0">>}}
    \cup {Attribute("B", "YmluYXJ5", <<>>, FALSE, <<>>)}
    \cup {Attribute("SS", "", <<>>, FALSE, <<StrElem("a"), StrElem("b")>>)}
    \cup {Attribute("NS", "", <<>>, FALSE, <<NumElem(<<"1">>), NumElem(<<"2", "5">>)>>)}
    \cup {Attribute("BS", "", <<>>, FALSE, <<StrElem("YQ=="), StrElem("Yg==")>>)}
    \cup {Attribute("NULL", "", <<>>, TRUE, <<>>)}
    \cup {Attribute("BOOL", "", <<>>, b, <<>>) : b \in BOOLEAN}
    \cup {Attribute("UNKNOWN", "value", <<>>, FALSE, <<>>)}

ElementAttributes ==
    {Attribute("S", "hello", <<>>, FALSE, <<>>),
     Attribute("N", "", <<"4", "2">>, FALSE, <<>>),
     Attribute("UNKNOWN", "value", <<>>, FALSE, <<>>),
     Attribute("M", "", <<>>, FALSE,
               <<Named("nested", Attribute("BOOL", "", <<>>, TRUE, <<>>))>>)}

AttributeNames == <<"id", "__proto__">>

ListsOf(elements) ==
    {Attribute("L", "", <<>>, FALSE, items) :
        items \in UNION {[1..k -> elements] : k \in 0..MaxItems}}

\* The maps with an attribute under some of the names, in the order of
\* AttributeNames.
MapsOf(elements) ==
    {Attribute("M", "", <<>>, FALSE,
               SelectSeq([k \in 1..Len(AttributeNames) |->
                             IF k \in ks THEN Named(AttributeNames[k], f[k])
                             ELSE Named("", f[k])],
                         LAMBDA a : a.key # "")) :
        ks \in SUBSET (1..Len(AttributeNames)),
        f \in [1..Len(AttributeNames) -> elements]}

AttributeValues ==
    ScalarAttributes
    \cup ListsOf(ElementAttributes)
    \cup MapsOf(ElementAttributes)
    \cup ListsOf(MapsOf({Attribute("S", "hello", <<>>, FALSE, <<>>)}))
    \cup MapsOf(ListsOf({Attribute("N", "", <<"7">>, FALSE, <<>>)}))

\* ------------------------------------------------------ contexts
\* contexts[r] holds what the call of record r has to do with Context
\* instances: made, the instances it created; ctx, the reference it gives to
\* the chain or to the not-found handler; ectx, the one it gives to the error
\* handler; reads, what the user functions of the record got from get().
\* A reference names the instance by the call that created it and its rank.
NoRef == [rec |-> 0, slot |-> 0]

NoContexts == [made |-> <<>>, ctx |-> NoRef, ectx |-> NoRef, reads |-> <<>>]

\* `private store = new Map()`: the keys k1 and k2 are absent (0).
NewContext(type) == [type |-> type, k1 |-> 0, k2 |-> 0]

\* Mutant: one BaseContextImpl is kept and handed out again.
pooledRef(heap, r) ==
    IF heap[1].made # <<>> THEN [rec |-> 1, slot |-> 1]
    ELSE [rec |-> r, slot |-> Len(heap[r].made) + 1]

\* `new BaseContextImpl(lambdaContext)`: an instance of its own.
newRef(heap, r) == [rec |-> r, slot |-> Len(heap[r].made) + 1]

\* create<Type>Context(...) called by the call of record r, and the
\* parameters (roles) the instance is passed as.
createContext(heap, r, type, roles) ==
    LET ref == newRef(heap, r)
    IN  [heap EXCEPT ![r] = [f \in DOMAIN @ |->
            IF f = "made" THEN Append(@.made, NewContext(type))
            ELSE IF f \in roles THEN ref
            ELSE @[f]]]

\* BaseContextImpl.get(key): 0 for undefined
get(heap, ref, key) == heap[ref.rec].made[ref.slot][key]

\* Mutant: set keeps the value a key already has.
setIfAbsent(heap, ref, key, value) ==
    IF get(heap, ref, key) # 0 THEN heap
    ELSE [heap EXCEPT ![ref.rec].made[ref.slot][key] = value]

\* BaseContextImpl.set(key, value)
set(heap, ref, key, value) == [heap EXCEPT ![ref.rec].made[ref.slot][key] = value]

\* A user function of record r, the one at position pos of the record's
\* trace, reads both keys through the context it was given.
readBoth(heap, r, ref, pos) ==
    [heap EXCEPT ![r].reads = Append(@, [pos |-> pos, ref |-> ref,
                                         k1 |-> get(heap, ref, "k1"),
                                         k2 |-> get(heap, ref, "k2")])]

\* The value a function of record r writes: at is the middleware, 0 for the
\* handler.
Written(r, at) == r * 10 + at

\* Mutant: one context is created when the call starts and passed on every
\* path.
allocateOne(heap, r, p, q, shp) ==
    IF p.st = "pending" /\ q.st # "pending"
    THEN createContext(heap, r, shp, {"ctx", "ectx"})
    ELSE heap

\* The Context instances the call of record r creates when it goes from p to
\* q: SnsRouter.handle and EventBridgeRouter.handle create one before they
\* look for the route and pass it on every path; processRecord creates a
\* NotFoundContext, a record context, and an ErrorContext in its catch block.
allocate(heap, r, p, q, shp) ==
    IF shp \in {"sns", "event"}
    THEN IF p.st = "pending" /\ q.st # "pending"
         THEN createContext(heap, r, shp, {"ctx", "ectx"})
         ELSE heap
    ELSE CASE p.st = "pending" /\ q.st = "notFound" ->
                  createContext(heap, r, "notFound", {"ctx"})
           [] p.st = "pending" /\ q.st = "chain" ->
                  createContext(heap, r, shp, {"ctx"})
           [] p.st = "chain" /\ q.st = "onError" ->
                  createContext(heap, r, "error", {"ectx"})
           [] OTHER -> heap

\* What the user function logged as e, at position pos of the trace of
\* record r, does with the store of its context: a writer sets k1 before
\* next(), a writer or a reader reads after it, a reader reads before it, the
\* handler reads and then sets k2, the other handlers read.
effect(heap, r, e, pos, entries) ==
    LET kind == IF e.op \in {"before", "after"} THEN entries[e.at].kind ELSE e.op
        ctx == heap[r].ctx
    IN  CASE e.op = "before" /\ kind = "writer" -> set(heap, ctx, "k1", Written(r, e.at))
          [] e.op = "before" /\ kind = "reader" -> readBoth(heap, r, ctx, pos)
          [] e.op = "after" /\ kind \in {"writer", "reader"} -> readBoth(heap, r, ctx, pos)
          [] e.op = "handler" -> set(readBoth(heap, r, ctx, pos), ctx, "k2", Written(r, 0))
          [] e.op = "notFound" -> readBoth(heap, r, ctx, pos)
          [] e.op = "onError" -> readBoth(heap, r, heap[r].ectx, pos)
          [] OTHER -> heap

RECURSIVE applyEvents(_, _, _, _, _)
applyEvents(heap, r, tr, pos, entries) ==
    IF pos > Len(tr) THEN heap
    ELSE applyEvents(effect(heap, r, tr[pos], pos, entries), r, tr, pos + 1, entries)

\* The contexts after the call of record r has gone from p to q.
withContexts(heap, r, p, q, shp, entries) ==
    applyEvents(allocate(heap, r, p, q, shp), r, q.trace, Len(p.trace) + 1, entries)

\* The contexts after the calls ps of an invocation have been started, in
\* list order.
RECURSIVE startFrom(_, _, _, _, _)
startFrom(heap, ps, k, shp, entries) ==
    IF k > Len(ps) THEN heap
    ELSE startFrom(withContexts(heap, k, NewCall, ps[k], shp, entries),
                   ps, k + 1, shp, entries)

startContexts(ps, shp, entries) ==
    startFrom([k \in 1..Len(ps) |-> NoContexts], ps, 1, shp, entries)

\* ------------------------------------------------------ batch engine
RECURSIVE idsFrom(_, _)
idsFrom(recs, k) ==
    IF k > Len(recs) THEN <<>>
    ELSE <<getRecordId(recs[k])>> \o idsFrom(recs, k + 1)

\* Mutant: records.slice(i + 1), the failing record itself is left out.
sliceIdsAfter(recs, k) == idsFrom(recs, k + 1)

\* records.slice(i).map((r) => this.getRecordId(r)), i counted from 1
sliceIds(recs, k) == idsFrom(recs, k)

\* Mutant: the identifier of a rejected call is pushed when its reason is
\* looked at and again when its record is.
RECURSIVE rejectedTwiceFrom(_, _, _)
rejectedTwiceFrom(recs, ps, k) ==
    IF k > Len(recs) THEN <<>>
    ELSE (IF ps[k].st = "rejected"
          THEN <<getRecordId(recs[k]), getRecordId(recs[k])>> ELSE <<>>)
         \o rejectedTwiceFrom(recs, ps, k + 1)

RECURSIVE rejectedFrom(_, _, _)
rejectedFrom(recs, ps, k) ==
    IF k > Len(recs) THEN <<>>
    ELSE (IF ps[k].st = "rejected" THEN <<getRecordId(recs[k])>> ELSE <<>>)
         \o rejectedFrom(recs, ps, k + 1)

RECURSIVE rejectedDownFrom(_, _, _)
rejectedDownFrom(recs, ps, k) ==
    IF k < 1 THEN <<>>
    ELSE (IF ps[k].st = "rejected" THEN <<getRecordId(recs[k])>> ELSE <<>>)
         \o rejectedDownFrom(recs, ps, k - 1)

\* Mutant: the results are scanned from the last to the first.
collectFailuresReversed(recs, ps) == rejectedDownFrom(recs, ps, Len(recs))

\* the loop over the results of Promise.allSettled
collectFailures(recs, ps) == rejectedFrom(recs, ps, 1)

\* Mutant: Promise.all, which ends at the first rejection.
allOrFirstRejected(ps) ==
    \/ \A r \in DOMAIN ps : Settled(ps[r])
    \/ \E r \in DOMAIN ps : ps[r].st = "rejected"

\* Mutant: the batch goes on as soon as one call has settled.
anySettled(ps) == \E r \in DOMAIN ps : Settled(ps[r])

\* Promise.allSettled(...) is fulfilled
allSettled(ps) == \A r \in DOMAIN ps : Settled(ps[r])

SeqsUpTo(S, n) == UNION {[1..k -> S] : k \in 0..n}

\* event.Records: the message id of a record is its place in the list.
MakeRecords(qs) == [k \in 1..Len(qs) |-> [messageId |-> k, queue |-> qs[k]]]

\* ------------------------------------------------------ initial state
Init ==
    /\ routes = <<>>
    /\ routers = [sns |-> <<>>, event |-> <<>>, dynamodb |-> <<>>]
    /\ payload = NoPayload
    /\ shape = "none"
    /\ result = NoResult
    /\ contexts = <<>>
    /\ middlewareEntries = <<>>
    /\ errorHandler = FALSE
    /\ notFoundHandler = FALSE
    /\ phase = "idle"
    /\ records = <<>>
    /\ mode = "none"
    /\ seqIndex = 0
    /\ proc = <<>>
    /\ outOfOrder = FALSE
    /\ response = <<>>

\* An event has been received and nothing has looked at it yet.
InitDetect ==
    /\ payload \in Payloads
    /\ routes = <<>>
    /\ routers = [sns |-> <<>>, event |-> <<>>, dynamodb |-> <<>>]
    /\ shape = "none"
    /\ result = NoResult
    /\ contexts = <<>>
    /\ middlewareEntries = <<>>
    /\ errorHandler = FALSE
    /\ notFoundHandler = FALSE
    /\ phase = "idle"
    /\ records = <<>>
    /\ mode = "none"
    /\ seqIndex = 0
    /\ proc = <<>>
    /\ outOfOrder = FALSE
    /\ response = <<>>

\* An attribute value has been received and not decoded yet.
InitUnmarshall ==
    /\ payload \in AttributeValues
    /\ routes = <<>>
    /\ routers = [sns |-> <<>>, event |-> <<>>, dynamodb |-> <<>>]
    /\ shape = "none"
    /\ result = NoResult
    /\ contexts = <<>>
    /\ middlewareEntries = <<>>
    /\ errorHandler = FALSE
    /\ notFoundHandler = FALSE
    /\ phase = "idle"
    /\ records = <<>>
    /\ mode = "none"
    /\ seqIndex = 0
    /\ proc = <<>>
    /\ outOfOrder = FALSE
    /\ response = <<>>

invocation == <<phase, payload, shape, records, mode, seqIndex, proc, outOfOrder,
                response, result, contexts>>

\* ------------------------------------------------------ registration
\* router.sqs(queueName?, handler, {sequential}?)
Sqs(matchers, max) ==
    /\ phase = "idle"
    /\ Len(routes) < max
    /\ \E m \in matchers, s \in BOOLEAN :
          routes' = Append(routes, [matcher |-> m, sequential |-> s])
    /\ UNCHANGED <<routers, middlewareEntries, errorHandler, notFoundHandler, invocation>>

\* router.sns(topicName?, handler)
Sns(matchers, max) ==
    /\ phase = "idle"
    /\ Len(routers.sns) < max
    /\ \E m \in matchers :
          routers' = [routers EXCEPT !.sns = Append(@, [matcher |-> m])]
    /\ UNCHANGED <<routes, middlewareEntries, errorHandler, notFoundHandler, invocation>>

\* router.event(options?, handler)
Event(sources, detailTypes, max) ==
    /\ phase = "idle"
    /\ Len(routers.event) < max
    /\ \E o \in BOOLEAN, src \in sources, dt \in detailTypes :
          /\ ~o => src = Undefined /\ dt = Undefined
          /\ routers' = [routers EXCEPT !.event =
                            Append(@, [options |-> o, source |-> src, detailType |-> dt])]
    /\ UNCHANGED <<routes, middlewareEntries, errorHandler, notFoundHandler, invocation>>

\* router.dynamodb(tableName?, handler, {sequential}?)
Dynamodb(matchers, max) ==
    /\ phase = "idle"
    /\ Len(routers.dynamodb) < max
    /\ \E m \in matchers, sq \in BOOLEAN :
          routers' = [routers EXCEPT !.dynamodb =
                         Append(@, [matcher |-> m, sequential |-> sq])]
    /\ UNCHANGED <<routes, middlewareEntries, errorHandler, notFoundHandler, invocation>>

\* router.dynamodb(options, handler) with options {tableName?, eventName?,
\* sequential?}: DynamoDBRouter.add keeps the options as they are.
DynamodbOptions(tableNames, eventNames, max) ==
    /\ phase = "idle"
    /\ Len(routers.dynamodb) < max
    /\ \E t \in tableNames, e \in eventNames, sq \in BOOLEAN :
          routers' = [routers EXCEPT !.dynamodb =
                         Append(@, [matcher |-> t, sequential |-> sq, eventName |-> e])]
    /\ UNCHANGED <<routes, middlewareEntries, errorHandler, notFoundHandler, invocation>>

\* Mutant: the entry is put in front of the list.
UseFirst(kinds, filters, max) ==
    /\ phase = "idle"
    /\ Len(middlewareEntries) < max
    /\ \E k \in kinds, f \in filters :
          middlewareEntries' = <<[filter |-> f, kind |-> k]>> \o middlewareEntries
    /\ UNCHANGED <<routes, routers, errorHandler, notFoundHandler, invocation>>

\* router.use(filter?, handler)
Use(kinds, filters, max) ==
    /\ phase = "idle"
    /\ Len(middlewareEntries) < max
    /\ \E k \in kinds, f \in filters :
          middlewareEntries' = Append(middlewareEntries, [filter |-> f, kind |-> k])
    /\ UNCHANGED <<routes, routers, errorHandler, notFoundHandler, invocation>>

\* router.onError(handler)
OnError ==
    /\ phase = "idle"
    /\ ~errorHandler
    /\ errorHandler' = TRUE
    /\ UNCHANGED <<routes, routers, middlewareEntries, notFoundHandler, invocation>>

\* router.notFound(handler)
NotFound ==
    /\ phase = "idle"
    /\ ~notFoundHandler
    /\ notFoundHandler' = TRUE
    /\ UNCHANGED <<routes, routers, middlewareEntries, errorHandler, invocation>>

\* ------------------------------------------------------ invocation
\* this.routes of the batch router the event went to.
batchRoutes == IF shape = "dynamodb" THEN routers.dynamodb ELSE routes

\* Mutant: in either mode only the first record is started by the call.
InvokeFirstOnly(queues, max) ==
    /\ phase = "idle"
    /\ \E qs \in SeqsUpTo(queues, max) :
          LET recs == MakeRecords(qs)
              sequential == isSequential(routes, recs)
          IN  /\ records' = recs
              /\ mode' = IF sequential THEN "sequential" ELSE "parallel"
              /\ seqIndex' = IF sequential THEN 1 ELSE 0
              /\ proc' = [k \in 1..Len(recs) |->
                            IF k = 1
                            THEN processRecord(routes, notFoundHandler, recs[k])
                            ELSE NewCall]
    /\ contexts' = startContexts(proc', "sqs", middlewareEntries)
    /\ phase' = "executing"
    /\ shape' = "sqs"
    /\ outOfOrder' = FALSE
    /\ response' = <<>>
    /\ result' = NoResult
    /\ UNCHANGED <<router, payload>>

\* Mutant: records[0] is processed before the length of the list is looked
\* at, so that an empty list has its undefined first record processed.
InvokeHeadFirst(queues, max) ==
    /\ phase = "idle"
    /\ \E qs \in SeqsUpTo(queues, max) :
          LET recs == MakeRecords(qs)
              sequential == isSequential(routes, recs)
          IN  /\ records' = recs
              /\ mode' = IF sequential THEN "sequential" ELSE "parallel"
              /\ seqIndex' = IF sequential THEN 1 ELSE 0
              /\ proc' = IF recs = <<>>
                         THEN <<processRecord(routes, notFoundHandler,
                                              [messageId |-> 0, queue |-> Undefined])>>
                         ELSE [k \in 1..Len(recs) |->
                                 IF ~sequential \/ k = 1
                                 THEN processRecord(routes, notFoundHandler, recs[k])
                                 ELSE NewCall]
    /\ contexts' = startContexts(proc', "sqs", middlewareEntries)
    /\ phase' = "executing"
    /\ shape' = "sqs"
    /\ outOfOrder' = FALSE
    /\ response' = <<>>
    /\ result' = NoResult
    /\ UNCHANGED <<router, payload>>

\* router.handler()(event, context) for an SQS event, up to the first
\* suspension point of BatchRouter.handle: the mode is decided, and
\* processSequentially starts the first record or processInParallel's
\* records.map(...) starts every record, in list order.
Invoke(queues, max) ==
    /\ phase = "idle"
    /\ \E qs \in SeqsUpTo(queues, max) :
          LET recs == MakeRecords(qs)
              sequential == isSequential(routes, recs)
          IN  /\ records' = recs
              /\ mode' = IF sequential THEN "sequential" ELSE "parallel"
              /\ seqIndex' = IF sequential THEN 1 ELSE 0
              /\ proc' = [k \in 1..Len(recs) |->
                            IF ~sequential \/ k = 1
                            THEN processRecord(routes, notFoundHandler, recs[k])
                            ELSE NewCall]
    /\ contexts' = startContexts(proc', "sqs", middlewareEntries)
    /\ phase' = "executing"
    /\ shape' = "sqs"
    /\ outOfOrder' = FALSE
    /\ response' = <<>>
    /\ result' = NoResult
    /\ UNCHANGED <<router, payload>>

\* router.handler()(event, context) for a DynamoDB Streams event: the same
\* BatchRouter.handle, over the routes of the DynamoDBRouter.
InvokeDynamodb(tables, max) ==
    /\ phase = "idle"
    /\ \E ts \in SeqsUpTo(tables, max) :
          LET recs == MakeRecords(ts)
              sequential == isSequential(routers.dynamodb, recs)
          IN  /\ records' = recs
              /\ mode' = IF sequential THEN "sequential" ELSE "parallel"
              /\ seqIndex' = IF sequential THEN 1 ELSE 0
              /\ proc' = [k \in 1..Len(recs) |->
                            IF ~sequential \/ k = 1
                            THEN processRecord(routers.dynamodb, notFoundHandler, recs[k])
                            ELSE NewCall]
    /\ contexts' = startContexts(proc', "dynamodb", middlewareEntries)
    /\ phase' = "executing"
    /\ shape' = "dynamodb"
    /\ outOfOrder' = FALSE
    /\ response' = <<>>
    /\ result' = NoResult
    /\ UNCHANGED <<router, payload>>

\* event.Records of a DynamoDB Streams event whose records have an eventName:
\* ks[k] is the table and the eventName of record k.
MakeStreamRecords(ks) ==
    [k \in 1..Len(ks) |-> [messageId |-> k, queue |-> ks[k][1], eventName |-> ks[k][2]]]

\* router.handler()(event, context) for a DynamoDB Streams event whose
\* records have an eventName, up to the first suspension point of
\* DynamoDBRouter.handle.
InvokeStream(tables, eventNames, max) ==
    /\ phase = "idle"
    /\ \E ks \in SeqsUpTo(tables \X eventNames, max) :
          LET recs == MakeStreamRecords(ks)
              sequential == isSequential(routers.dynamodb, recs)
          IN  /\ records' = recs
              /\ mode' = IF sequential THEN "sequential" ELSE "parallel"
              /\ seqIndex' = IF sequential THEN 1 ELSE 0
              /\ proc' = [k \in 1..Len(recs) |->
                            IF ~sequential \/ k = 1
                            THEN processRecord(routers.dynamodb, notFoundHandler, recs[k])
                            ELSE NewCall]
    /\ contexts' = startContexts(proc', "dynamodb", middlewareEntries)
    /\ phase' = "executing"
    /\ shape' = "dynamodb"
    /\ outOfOrder' = FALSE
    /\ response' = <<>>
    /\ result' = NoResult
    /\ UNCHANGED <<router, payload>>

\* Mutant: every record of the event is routed.
InvokeSnsEach(topics, max) ==
    /\ phase = "idle"
    /\ \E ts \in SeqsUpTo(topics, max) :
          /\ records' = [k \in 1..Len(ts) |-> [messageId |-> k, topic |-> ts[k]]]
          /\ proc' = [k \in 1..Len(ts) |->
                        handleSns(routers.sns, notFoundHandler, records'[k])]
    /\ contexts' = startContexts(proc', "sns", middlewareEntries)
    /\ phase' = "executing"
    /\ shape' = "sns"
    /\ mode' = "single"
    /\ seqIndex' = 0
    /\ outOfOrder' = FALSE
    /\ response' = <<>>
    /\ result' = NoResult
    /\ UNCHANGED <<router, payload>>

\* router.handler()(event, context) for an SNS event, up to the first
\* suspension point of SnsRouter.handle: only event.Records[0] is looked at.
InvokeSns(topics, max) ==
    /\ phase = "idle"
    /\ \E ts \in SeqsUpTo(topics, max) :
          /\ records' = [k \in 1..Len(ts) |-> [messageId |-> k, topic |-> ts[k]]]
          /\ proc' = IF Len(ts) = 0 THEN <<>>
                     ELSE <<handleSns(routers.sns, notFoundHandler, records'[1])>>
    /\ contexts' = startContexts(proc', "sns", middlewareEntries)
    /\ phase' = "executing"
    /\ shape' = "sns"
    /\ mode' = "single"
    /\ seqIndex' = 0
    /\ outOfOrder' = FALSE
    /\ response' = <<>>
    /\ result' = NoResult
    /\ UNCHANGED <<router, payload>>

\* router.handler()(event, context) for an EventBridge event, up to the first
\* suspension point of EventBridgeRouter.handle.  The event is the one record.
InvokeEvent(sources, detailTypes) ==
    /\ phase = "idle"
    /\ \E src \in sources, dt \in detailTypes :
          /\ records' = <<[messageId |-> 1, source |-> src, detailType |-> dt]>>
          /\ proc' = <<handleEventBridge(routers.event, notFoundHandler, records'[1])>>
    /\ contexts' = startContexts(proc', "event", middlewareEntries)
    /\ phase' = "executing"
    /\ shape' = "event"
    /\ mode' = "single"
    /\ seqIndex' = 0
    /\ outOfOrder' = FALSE
    /\ response' = <<>>
    /\ result' = NoResult
    /\ UNCHANGED <<router, payload>>

\* Mutant: an event of no known shape is answered like an empty batch.
InvokeUnknownAsBatch ==
    /\ phase = "idle"
    /\ phase' = "done"
    /\ shape' = "unknown"
    /\ result' = Returned("batch")
    /\ UNCHANGED <<router, payload, records, mode, seqIndex, proc, outOfOrder,
                   response, contexts>>

\* router.handler()(event, context) for an event of no known shape:
\* `case 'unknown': throw new Error(...)`.
InvokeUnknown ==
    /\ phase = "idle"
    /\ phase' = "done"
    /\ shape' = "unknown"
    /\ result' = Rejected("U")
    /\ UNCHANGED <<router, payload, records, mode, seqIndex, proc, outOfOrder,
                   response, contexts>>

\* detectEventType(event) is called on the event received.
Detect ==
    /\ phase = "idle"
    /\ payload.kind # "none"
    /\ result = NoResult
    /\ result' = detectEventType(payload)
    /\ UNCHANGED <<router, phase, payload, shape, records, mode, seqIndex, proc,
                   outOfOrder, response, contexts>>

\* unmarshallValue(value) is called on the attribute value received; the
\* function has no statement that throws for an attribute value.
Unmarshall ==
    /\ phase = "idle"
    /\ result = NoResult
    /\ result' = [returns |-> "value", error |-> NoError,
                  value |-> unmarshallValue(payload)]
    /\ UNCHANGED <<router, phase, payload, shape, records, mode, seqIndex, proc,
                   outOfOrder, response, contexts>>

\* Mutant: the Lambda handler returns a batch response for every shape.
SingleSettleBatch ==
    /\ phase = "executing"
    /\ mode = "single"
    /\ allSettled(proc)
    /\ result' = IF proc # <<>> /\ proc[1].st = "rejected"
                 THEN Rejected(proc[1].err)
                 ELSE Returned("batch")
    /\ phase' = "done"
    /\ UNCHANGED <<router, payload, shape, records, mode, seqIndex, proc, outOfOrder,
                   response, contexts>>

\* SnsRouter.handle or EventBridgeRouter.handle has settled: the Lambda
\* handler returns undefined, or rejects with what handle threw.
SingleSettle ==
    /\ phase = "executing"
    /\ mode = "single"
    /\ allSettled(proc)
    /\ result' = IF proc # <<>> /\ proc[1].st = "rejected"
                 THEN Rejected(proc[1].err)
                 ELSE Returned("undefined")
    /\ phase' = "done"
    /\ UNCHANGED <<router, payload, shape, records, mode, seqIndex, proc, outOfOrder,
                   response, contexts>>

\* Mutant: the call index is one variable of the router, shared by the chains
\* of all the records in flight.
StepSharedIndex(r) ==
    /\ phase = "executing"
    /\ Running(proc[r])
    /\ \E outcome \in {"return", "throw"} :
          LET shared == CHOOSE i \in {proc[s].currentIndex : s \in DOMAIN proc} :
                            \A s \in DOMAIN proc : proc[s].currentIndex <= i
              q == recordStep([proc[r] EXCEPT !.currentIndex = shared],
                              getMiddlewareFor(middlewareEntries, shape),
                              errorHandler, outcome)
          IN  /\ proc' = [proc EXCEPT ![r] = q]
              /\ contexts' = withContexts(contexts, r, proc[r], q, shape,
                                           middlewareEntries)
              /\ outOfOrder' = (outOfOrder \/
                     (Settled(q) /\ \E s \in 1..(r - 1) : Running(proc[s])))
    /\ UNCHANGED <<router, phase, payload, shape, records, mode, seqIndex, response,
                   result>>

\* A record's processRecord call runs from one suspension point to the next.
Step(r) ==
    /\ phase = "executing"
    /\ Running(proc[r])
    /\ \E outcome \in {"return", "throw"} :
          LET q == recordStep(proc[r], getMiddlewareFor(middlewareEntries, shape),
                              errorHandler, outcome)
          IN  /\ proc' = [proc EXCEPT ![r] = q]
              /\ contexts' = withContexts(contexts, r, proc[r], q, shape,
                                           middlewareEntries)
              /\ outOfOrder' = (outOfOrder \/
                     (Settled(q) /\ \E s \in 1..(r - 1) : Running(proc[s])))
    /\ UNCHANGED <<router, phase, payload, shape, records, mode, seqIndex, response,
                   result>>

Steps == \E r \in DOMAIN proc : Step(r)

\* Mutant: the catch block calls the error handler for every record it
\* reports without having processed it.
SeqAdvanceHandleRest ==
    /\ phase = "executing"
    /\ mode = "sequential"
    /\ Settled(proc[seqIndex])
    /\ IF proc[seqIndex].st = "rejected"
       THEN /\ response' = sliceIds(records, seqIndex)
            /\ phase' = "done"
            /\ result' = Returned("batch")
            /\ proc' = [j \in DOMAIN proc |->
                          IF j > seqIndex /\ errorHandler
                          THEN Log(proc[j], "onError", 0) ELSE proc[j]]
            /\ UNCHANGED <<seqIndex, contexts>>
       ELSE IF seqIndex = Len(records)
       THEN /\ response' = <<>>
            /\ phase' = "done"
            /\ result' = Returned("batch")
            /\ UNCHANGED <<seqIndex, proc, contexts>>
       ELSE /\ seqIndex' = seqIndex + 1
            /\ proc' = [proc EXCEPT ![seqIndex + 1] =
                          processRecord(batchRoutes, notFoundHandler, records[seqIndex + 1])]
            /\ contexts' = withContexts(contexts, seqIndex + 1, NewCall,
                                         proc'[seqIndex + 1], shape, middlewareEntries)
            /\ UNCHANGED <<phase, response, result>>
    /\ UNCHANGED <<router, payload, shape, records, mode, outOfOrder>>

\* Mutant: the loop goes on to the next record without awaiting the call.
SeqAdvanceEager ==
    /\ phase = "executing"
    /\ mode = "sequential"
    /\ IF proc[seqIndex].st = "rejected"
       THEN /\ response' = sliceIds(records, seqIndex)
            /\ phase' = "done"
            /\ result' = Returned("batch")
            /\ UNCHANGED <<seqIndex, proc, contexts>>
       ELSE IF seqIndex = Len(records)
       THEN /\ Settled(proc[seqIndex])
            /\ response' = <<>>
            /\ phase' = "done"
            /\ result' = Returned("batch")
            /\ UNCHANGED <<seqIndex, proc, contexts>>
       ELSE /\ seqIndex' = seqIndex + 1
            /\ proc' = [proc EXCEPT ![seqIndex + 1] =
                          processRecord(batchRoutes, notFoundHandler, records[seqIndex + 1])]
            /\ contexts' = withContexts(contexts, seqIndex + 1, NewCall,
                                         proc'[seqIndex + 1], shape, middlewareEntries)
            /\ UNCHANGED <<phase, response, result>>
    /\ UNCHANGED <<router, payload, shape, records, mode, outOfOrder>>

\* processSequentially after `await this.processRecord(...)` of record i:
\* the catch block returns the rest of the list, or the loop goes on.
SeqAdvance ==
    /\ phase = "executing"
    /\ mode = "sequential"
    /\ Settled(proc[seqIndex])
    /\ IF proc[seqIndex].st = "rejected"
       THEN /\ response' = sliceIds(records, seqIndex)
            /\ phase' = "done"
            /\ result' = Returned("batch")
            /\ UNCHANGED <<seqIndex, proc, contexts>>
       ELSE IF seqIndex = Len(records)
       THEN /\ response' = <<>>
            /\ phase' = "done"
            /\ result' = Returned("batch")
            /\ UNCHANGED <<seqIndex, proc, contexts>>
       ELSE /\ seqIndex' = seqIndex + 1
            /\ proc' = [proc EXCEPT ![seqIndex + 1] =
                          processRecord(batchRoutes, notFoundHandler, records[seqIndex + 1])]
            /\ contexts' = withContexts(contexts, seqIndex + 1, NewCall,
                                         proc'[seqIndex + 1], shape, middlewareEntries)
            /\ UNCHANGED <<phase, response, result>>
    /\ UNCHANGED <<router, payload, shape, records, mode, outOfOrder>>

\* Mutant: the calls are awaited with a combinator that is not fulfilled when
\* one of them has rejected.
ParCollectFulfilled ==
    /\ phase = "executing"
    /\ mode = "parallel"
    /\ \A r \in DOMAIN proc : proc[r].st = "resolved"
    /\ response' = collectFailures(records, proc)
    /\ phase' = "done"
    /\ result' = Returned("batch")
    /\ UNCHANGED <<router, payload, shape, records, mode, seqIndex, proc, outOfOrder,
                   contexts>>

\* processInParallel after `await Promise.allSettled(...)`.
ParCollect ==
    /\ phase = "executing"
    /\ mode = "parallel"
    /\ allSettled(proc)
    /\ response' = collectFailures(records, proc)
    /\ phase' = "done"
    /\ result' = Returned("batch")
    /\ UNCHANGED <<router, payload, shape, records, mode, seqIndex, proc, outOfOrder,
                   contexts>>

\* The invocation is over; the router is kept for the next one.
Return ==
    /\ phase = "done"
    /\ phase' = "idle"
    /\ records' = <<>>
    /\ mode' = "none"
    /\ seqIndex' = 0
    /\ proc' = <<>>
    /\ outOfOrder' = FALSE
    /\ response' = <<>>
    /\ shape' = "none"
    /\ result' = NoResult
    /\ contexts' = <<>>
    /\ UNCHANGED <<router, payload>>

\* ------------------------------------------------------ specifications
\* Batches of up to MaxRecords records, without middleware.
Next ==
    \/ Sqs({Undefined, "q1"}, MaxBatchRoutes)
    \/ OnError
    \/ NotFound
    \/ Invoke(Queues, MaxRecords)
    \/ Steps
    \/ SeqAdvance
    \/ ParCollect
    \/ Return

Spec == Init /\ [][Next]_vars

\* Routing: several routes, short batches, no error handler, no middleware.
NextRoutes ==
    \/ Sqs(Queues \cup {Undefined, ""}, MaxRoutes)
    \/ NotFound
    \/ Invoke(Queues, MaxRouteRecords)
    \/ Steps
    \/ SeqAdvance
    \/ ParCollect
    \/ Return

SpecRoutes == Init /\ [][NextRoutes]_vars

\* One chain invocation: a catch-all route, up to MaxMw middleware, and
\* events of one record.
NextChain ==
    \/ Sqs({Undefined}, 1)
    \/ Use(MwKinds, {Undefined}, MaxMw)
    \/ OnError
    \/ Invoke({"q1"}, 1)
    \/ Steps
    \/ SeqAdvance
    \/ ParCollect
    \/ Return

SpecChain == Init /\ [][NextChain]_vars

\* Batches of records of one queue, behind middleware that may throw for
\* some records and not for others.
NextMw ==
    \/ Sqs({Undefined}, 1)
    \/ Use(BatchMwKinds, {Undefined}, MaxBatchMw)
    \/ OnError
    \/ Invoke({"q1"}, MaxMwRecords)
    \/ Steps
    \/ SeqAdvance
    \/ ParCollect
    \/ Return

SpecMw == Init /\ [][NextMw]_vars

\* Batches of records of two queues, one of them routed, behind middleware
\* that writes to the store of the context and middleware that reads it.
NextStore ==
    \/ Sqs({"q1"}, 1)
    \/ Use(StoreMwKinds, {Undefined}, MaxStoreMw)
    \/ OnError
    \/ NotFound
    \/ Invoke(Queues, MaxStoreRecords)
    \/ Steps
    \/ SeqAdvance
    \/ ParCollect
    \/ Return

SpecStore == Init /\ [][NextStore]_vars

\* EventBridge events of two sources and two detail types, routed by up to
\* MaxEventRoutes routes with a matcher on neither, either or both fields.
NextEvents ==
    \/ Event(MatcherSources, MatcherDetailTypes, MaxEventRoutes)
    \/ NotFound
    \/ InvokeEvent(SourceNames, DetailTypeNames)
    \/ Steps
    \/ SingleSettle
    \/ Return

SpecEvents == Init /\ [][NextEvents]_vars

\* DynamoDB Streams records of one table, inserted or modified, routed by up
\* to MaxStreamRoutes routes with a matcher on the table, the eventName, both
\* or neither.
NextStream ==
    \/ DynamodbOptions({Undefined} \cup Tables, {Undefined} \cup EventNames, MaxStreamRoutes)
    \/ InvokeStream(Tables, EventNames, MaxStreamRecords)
    \/ Steps
    \/ SeqAdvance
    \/ ParCollect
    \/ Return

SpecStream == Init /\ [][NextStream]_vars

\* The entries registered in the router, all lists together.
Registered ==
    Len(routes) + Len(routers.sns) + Len(routers.event) + Len(routers.dynamodb)
        + Len(middlewareEntries)

\* Up to MaxRegistered registrations of routes of the four shapes and of
\* middleware, in any order, and invocations between them.
RegisterSqs == Registered < MaxRegistered /\ Sqs({Undefined, "q1"}, MaxRegistered)

RegisterSns == Registered < MaxRegistered /\ Sns({Undefined, "t1"}, MaxRegistered)

RegisterEvent ==
    Registered < MaxRegistered /\ Event({Undefined, "s1"}, {Undefined}, MaxRegistered)

RegisterDynamodb ==
    Registered < MaxRegistered /\ Dynamodb({Undefined, "tb1"}, MaxRegistered)

RegisterUse ==
    Registered < MaxRegistered /\ Use({"once"}, {Undefined, "sqs"}, MaxRegistered)

NextRegister ==
    \/ RegisterSqs
    \/ RegisterSns
    \/ RegisterEvent
    \/ RegisterDynamodb
    \/ RegisterUse
    \/ OnError
    \/ NotFound
    \/ Invoke({"q1"}, 1)
    \/ InvokeSns(Topics, 1)
    \/ Steps
    \/ SeqAdvance
    \/ ParCollect
    \/ SingleSettle
    \/ Return

SpecRegister == Init /\ [][NextRegister]_vars

\* Batches of up to MaxLiveRecords records behind up to MaxLiveMw middleware
\* of every kind, with or without a route, an error handler and a not-found
\* handler.
NextLive ==
    \/ Sqs({Undefined}, 1)
    \/ Use(MwKinds, {Undefined}, MaxLiveMw)
    \/ OnError
    \/ NotFound
    \/ Invoke({"q1"}, MaxLiveRecords)
    \/ Steps
    \/ SeqAdvance
    \/ ParCollect
    \/ Return

\* Every user function that has been called completes, so that a call that
\* awaits one runs on, and the event loop runs the continuation of the batch
\* engine once the call it awaits has settled.
Fairness ==
    /\ WF_vars(Steps)
    /\ WF_vars(SeqAdvance)
    /\ WF_vars(ParCollect)

SpecLive == Init /\ [][NextLive]_vars /\ Fairness

\* SNS events of up to MaxSnsRecords records of two topics, routed by up to
\* MaxSnsRoutes routes, behind a middleware.
NextSns ==
    \/ Sns(SnsTopics \cup {Undefined}, MaxSnsRoutes)
    \/ Use({"once"}, {Undefined}, 1)
    \/ OnError
    \/ NotFound
    \/ InvokeSns(SnsTopics, MaxSnsRecords)
    \/ Steps
    \/ SingleSettle
    \/ Return

SpecSns == Init /\ [][NextSns]_vars

\* unmarshallValue applied to every attribute value of AttributeValues.
NextUnmarshall == Unmarshall

SpecUnmarshall == InitUnmarshall /\ [][NextUnmarshall]_vars

\* detectEventType applied to every event of Payloads.
NextDetect == Detect

SpecDetect == InitDetect /\ [][NextDetect]_vars

\* The four shapes and an event of no known shape, behind middleware that
\* applies to every shape.
NextShapes ==
    \/ Sqs({Undefined}, 1)
    \/ Sns({Undefined, "t1"}, 1)
    \/ Event({Undefined, "s1"}, {Undefined}, 1)
    \/ Dynamodb({Undefined}, 1)
    \/ Use(BatchMwKinds, {Undefined}, MaxShapeMw)
    \/ OnError
    \/ NotFound
    \/ Invoke({"q1"}, MaxShapeRecords)
    \/ InvokeDynamodb(Tables, MaxShapeRecords)
    \/ InvokeSns(Topics, 1)
    \/ InvokeEvent(Sources, DetailTypes)
    \/ InvokeUnknown
    \/ Steps
    \/ SeqAdvance
    \/ ParCollect
    \/ SingleSettle
    \/ Return

SpecShapes == Init /\ [][NextShapes]_vars

\* Middleware registered for every shape or for one, in front of a catch-all
\* route of each shape.
NextFilters ==
    \/ Sqs({Undefined}, 1)
    \/ Sns({Undefined}, 1)
    \/ Event({Undefined}, {Undefined}, 1)
    \/ Dynamodb({Undefined}, 1)
    \/ Use({"once"}, EventSources \cup {Undefined}, MaxFilterMw)
    \/ Invoke({"q1"}, 1)
    \/ InvokeDynamodb(Tables, 1)
    \/ InvokeSns(Topics, 1)
    \/ InvokeEvent(Sources, DetailTypes)
    \/ Steps
    \/ SeqAdvance
    \/ ParCollect
    \/ SingleSettle
    \/ Return

SpecFilters == Init /\ [][NextFilters]_vars

\* ------------------------------------------------------ properties
N == Len(records)

Count(tr, op) == Cardinality({j \in 1..Len(tr) : tr[j].op = op})

Elems(sq) == {sq[j] : j \in 1..Len(sq)}

\* processRecord of record r has thrown
Failed(r) == proc[r].st = "rejected"

FirstFailed(k) == Failed(k) /\ \A j \in 1..(k - 1) : ~Failed(j)

\* The ids of records k..N, in list order.
IdsFromTo(k) == [j \in 1..(N - k + 1) |-> getRecordId(records[k + j - 1])]

\* C1 (Spec).  Sequential failure propagation: in sequential mode, when
\* record k is the first whose processing throws, the records after k are
\* never started (nothing of theirs runs), the records up to k were all
\* started, and the response lists exactly the ids of records k..N in order.
C1_SequentialFailurePropagation ==
    mode = "sequential" =>
        \A k \in 1..N : FirstFailed(k) =>
            /\ \A j \in (k + 1)..N : proc[j] = NewCall
            /\ \A j \in 1..k : proc[j].st # "pending"
            /\ phase = "done" => response = IdsFromTo(k)

C1_Witness ==
    /\ phase = "done" /\ mode = "sequential" /\ N = 3
    /\ proc[1].st = "resolved" /\ Count(proc[1].trace, "handler") = 1
    /\ FirstFailed(2)
    /\ proc[3] = NewCall
    /\ response = <<2, 3>>

\* Exactly one record's chain, handler or not-found handler has thrown.
OnlyThrower(k) == proc[k].err # NoError /\ \A j \in 1..N : j # k => proc[j].err = NoError

\* Record r ran to completion: its call resolved, and its handler ran once if
\* it has a route.
Completed(r) ==
    /\ proc[r].st = "resolved"
    /\ proc[r].route # 0 => Count(proc[r].trace, "handler") = 1

C9_ParallelFailuresInListOrder ==
    (phase = "done" /\ mode = "parallel") =>
        /\ \A r \in 1..N : (getRecordId(records[r]) \in Elems(response)) <=> Failed(r)
        /\ \A a, b \in 1..Len(response) : a < b => response[a] < response[b]

\* Record 2 failed before record 1 did; the response lists 1 before 2.
C9_Witness ==
    /\ phase = "done" /\ mode = "parallel" /\ N = 2
    /\ outOfOrder
    /\ response = <<1, 2>>

\* Record r matches no registered route.
Unmatched(r) == findRouteForRecord(routes, records[r]) = 0

Reported(r) == getRecordId(records[r]) \in Elems(response)

\* C8 as stated (Spec): a record that matches no route is never reported in
\* the response, whatever the mode and whatever the not-found handler does.
C8_UnmatchedNeverReported ==
    phase = "done" => \A r \in 1..N : Unmatched(r) => ~Reported(r)

\* C8 as amended (Spec).  A record that matches no route runs no handler and
\* no error handler, and fails only when the not-found handler throws.  In
\* concurrent mode it is reported iff it failed; in sequential mode it is
\* reported iff it or an earlier record failed, and when it did not fail the
\* record after it is processed.
C8_UnmatchedFailsOnlyByNotFoundHandler ==
    \A r \in 1..N : Unmatched(r) =>
        /\ Count(proc[r].trace, "handler") = 0
        /\ Count(proc[r].trace, "onError") = 0
        /\ Failed(r) <=> proc[r].err = "N"
        /\ proc[r].err = "N" => notFoundHandler
        /\ (phase = "done" /\ mode = "parallel") => (Reported(r) <=> Failed(r))
        /\ (phase = "done" /\ mode = "sequential") =>
              /\ Reported(r) <=> \E j \in 1..r : Failed(j)
              /\ (proc[r].st = "resolved" /\ r < N) => proc[r + 1].st # "pending"

\* A sequential batch whose second record has no route: the not-found handler
\* ran for it, and the third record was processed after it.
C8_Witness ==
    /\ phase = "done" /\ mode = "sequential" /\ N = 3
    /\ Unmatched(2) /\ Count(proc[2].trace, "notFound") = 1
    /\ proc[2].st = "resolved"
    /\ Count(proc[3].trace, "handler") = 1
    /\ response = <<>>

\* The routes whose matcher is absent or equal to the key.  No queue has the
\* empty name, and a route registered with it has no matcher to compare.
Absent(matcher) == matcher \in {Undefined, ""}

Candidates(key) ==
    {k \in 1..Len(routes) : Absent(routes[k].matcher) \/ routes[k].matcher = key}

Min(S) == CHOOSE k \in S : \A j \in S : k <= j

\* The earliest-registered candidate, 0 for undefined.
Earliest(key) == IF Candidates(key) = {} THEN 0 ELSE Min(Candidates(key))

FirstRouteSequential ==
    /\ N > 0
    /\ Earliest(records[1].queue) # 0
    /\ routes[Earliest(records[1].queue)].sequential = TRUE

\* C7 (SpecRoutes).  The mode of a batch is the one the first record's route
\* gives, for the whole batch: sequential iff that route exists and is
\* sequential.  A sequential batch runs one record at a time and a concurrent
\* batch has started every record, whatever the routes of the later records.
C7_ModeFromFirstRecord ==
    phase \in {"executing", "done"} =>
        /\ mode = IF FirstRouteSequential THEN "sequential" ELSE "parallel"
        /\ mode = "sequential" =>
              /\ Cardinality({r \in 1..N : Running(proc[r])}) <= 1
              /\ \A r \in 1..N : proc[r].st # "pending" =>
                    \A j \in 1..(r - 1) : proc[j].st = "resolved"
        /\ mode = "parallel" => \A r \in 1..N : proc[r].st # "pending"

\* The first record's route is sequential, the second record's is not: the
\* second record is processed only after the first has completed.
C7_Witness ==
    /\ phase = "executing" /\ mode = "sequential" /\ N = 2
    /\ Earliest(records[2].queue) # 0
    /\ routes[Earliest(records[2].queue)].sequential = FALSE
    /\ proc[1].st = "resolved" /\ Running(proc[2])

\* -------------------------------------------- one chain invocation
\* The middleware of the chain of an SQS record, and what each does.
Chain == getMiddlewareFor(middlewareEntries, "sqs")

KindAt(m) == Chain[m].kind

ChainKinds == {KindAt(m) : m \in 1..Len(Chain)}

IsPrefix(a, b) == Len(a) <= Len(b) /\ a = SubSeq(b, 1, Len(a))

Befores == [j \in 1..Len(Chain) |-> Ev("before", Chain[j].id)]

Afters == [j \in 1..Len(Chain) |-> Ev("after", Chain[Len(Chain) + 1 - j].id)]

\* Nothing the user wrote has thrown in the call p: no catch block has run and
\* the only error there may be is the composer's own.
NothingThrown(p) == Count(p.trace, "caught") = 0 /\ p.err \in {NoError, "P"}

\* The error the chain of p ended with: the one the error handler was given,
\* or the one processRecord threw.
ChainError(p) == IF p.handled # NoError THEN p.handled ELSE p.err

\* C4 (SpecChain).  Onion ordering: when every middleware m0..mn awaits next()
\* exactly once and the handler does not throw, one chain invocation runs
\* m0-before, ..., mn-before, h, mn-after, ..., m0-after, in this order, and
\* the record succeeds.
C4_OnionOrdering ==
    \A r \in 1..N :
        (proc[r].route # 0 /\ ChainKinds \subseteq {"once", "guard", "swallow"}
            /\ NothingThrown(proc[r])) =>
            LET onion == Befores \o <<Ev("handler", proc[r].route)>> \o Afters
            IN  /\ IsPrefix(proc[r].trace, onion)
                /\ Settled(proc[r]) =>
                      proc[r].st = "resolved" /\ proc[r].trace = onion

\* Three middleware around the handler.
C4_Witness ==
    /\ phase = "done" /\ N = 1 /\ Len(Chain) = 3
    /\ ChainKinds = {"once"}
    /\ proc[1].trace = <<Ev("before", 1), Ev("before", 2), Ev("before", 3),
                         Ev("handler", 1),
                         Ev("after", 3), Ev("after", 2), Ev("after", 1)>>

\* The middleware that have called next() a second time in the call p.
CalledTwice(p) == {p.trace[j].at : j \in {i \in 1..Len(p.trace) : p.trace[i].op = "nextAgain"}}

\* No middleware and no handler has run twice in the call p.
NothingRunTwice(p) ==
    \A i, j \in 1..Len(p.trace) :
        (i < j /\ p.trace[i].op \in {"before", "handler"}) => p.trace[i] # p.trace[j]

Enclosed(m) == \E k \in 1..(m - 1) : KindAt(k) \in {"guard", "swallow"}

AftersOfCallers == SelectSeq(Afters, LAMBDA e : KindAt(e.at) # "none")

\* C6 (SpecChain).  Auto-continue: a middleware that returns without calling
\* next() is followed by the middleware after it and by the handler, in
\* registration order, as if it had called next() last and had no after-step;
\* the handler runs exactly once, also when no middleware calls next().
C6_AutoContinue ==
    \A r \in 1..N :
        (proc[r].route # 0 /\ "none" \in ChainKinds
            /\ ChainKinds \subseteq {"none", "once", "guard", "swallow"}
            /\ NothingThrown(proc[r])) =>
            LET order == Befores \o <<Ev("handler", proc[r].route)>> \o AftersOfCallers
            IN  /\ IsPrefix(proc[r].trace, order)
                /\ Settled(proc[r]) =>
                      /\ proc[r].st = "resolved"
                      /\ proc[r].trace = order
                      /\ Count(proc[r].trace, "handler") = 1

\* Of three middleware only the second calls next().
C6_Witness ==
    /\ phase = "done" /\ N = 1 /\ Len(Chain) = 3
    /\ KindAt(1) = "none" /\ KindAt(2) = "once" /\ KindAt(3) = "none"
    /\ proc[1].trace = <<Ev("before", 1), Ev("before", 2), Ev("before", 3),
                         Ev("handler", 1), Ev("after", 2)>>
    /\ response = <<>>

\* C10 (SpecChain).  Errors are swallowed by an error handler that returns:
\* when a middleware or the handler throws and the registered error handler
\* returns without throwing, the record is not reported as failed.
C10_ErrorHandlerSwallows ==
    phase = "done" =>
        \A r \in 1..N :
            (Count(proc[r].trace, "onError") = 1 /\ proc[r].err # "H") => ~Reported(r)

\* The error handler has been called n times in the call p.
ErrorHandlerCalls(p) == Count(p.trace, "onError")

ChainTrace(p) == SelectSeq(p.trace, LAMBDA e : e.op # "onError")

\* The error the last step of the chain of p throws when it throws: the
\* composer's after a second next(), a guard's own after it has caught one,
\* the handler's or the middleware's otherwise.
ThrownBy(p) ==
    LET last == ChainTrace(p)[Len(ChainTrace(p))]
    IN  IF last.op = "nextAgain" THEN "P"
        ELSE IF last.op = "caught" THEN "R"
        ELSE "E"

\* C12 (SpecChain).  When the processing of a record (its middleware chain
\* with the handler) throws, the registered error handler is called exactly
\* once, with the error thrown; it is not called while the chain runs nor for
\* a record whose processing does not throw; when none is registered the
\* error propagates and the record is reported as failed.
C12_ErrorHandlerOncePerThrow ==
    \A r \in 1..N :
        /\ proc[r].st = "chain" =>
              ErrorHandlerCalls(proc[r]) = 0 /\ proc[r].handled = NoError
        /\ proc[r].st \in {"onError", "resolved", "rejected"} =>
              /\ proc[r].st = "resolved" <=> proc[r].err = NoError
              /\ proc[r].err = NoError => ErrorHandlerCalls(proc[r]) = 0
              /\ proc[r].err # NoError =>
                    IF errorHandler
                    THEN /\ ErrorHandlerCalls(proc[r]) = 1
                         /\ proc[r].handled = ThrownBy(proc[r])
                    ELSE /\ ErrorHandlerCalls(proc[r]) = 0
                         /\ proc[r].st = "rejected"
                         /\ proc[r].err = ThrownBy(proc[r])
                         /\ phase = "done" => Reported(r)

\* The handler throws behind one middleware and the error handler is called
\* with its error.
C12_Witness ==
    /\ phase = "done" /\ N = 1 /\ errorHandler
    /\ proc[1].trace = <<Ev("before", 1), Ev("handler", 1), Ev("onError", 0)>>
    /\ proc[1].handled = "E"
    /\ proc[1].st = "rejected"

\* -------------------------------------------- the four shapes
\* The invocation is of a shape without batch response, and its one record
\* has been routed.
SingleRouted == shape \in {"sns", "event"} /\ proc # <<>>

C14_BatchResponseIffBatchable ==
    phase = "done" =>
        /\ result.returns = "batch" <=> shape \in {"sqs", "dynamodb"}
        /\ (shape \in {"sns", "event"} /\ \A r \in DOMAIN proc : proc[r].st = "resolved") =>
              result = Returned("undefined")
        /\ result.returns # "batch" => response = <<>>

\* An SNS record is handled and the Lambda handler returns undefined.
C14_Witness ==
    /\ phase = "done" /\ shape = "sns"
    /\ proc # <<>> /\ Count(proc[1].trace, "handler") = 1 /\ proc[1].st = "resolved"
    /\ result = Returned("undefined")

\* The registered entries that apply to the shape of the invocation: those
\* without a filter and those filtered to it.
Applicable ==
    {k \in 1..Len(middlewareEntries) :
        middlewareEntries[k].filter = Undefined \/ middlewareEntries[k].filter = shape}

\* The entries whose before-step has run in the call p, in the order they ran.
Entered(p) ==
    LET befores == SelectSeq(p.trace, LAMBDA e : e.op = "before")
    IN  [j \in 1..Len(befores) |-> befores[j].at]

\* C15 (SpecFilters).  The middleware chain of a record of shape S is exactly
\* the registered entries whose filter is absent or equal to S, in
\* registration order: an entry filtered to another shape never runs for the
\* record, and every other entry has run when the record has been processed.
C15_MiddlewareByShape ==
    \A r \in DOMAIN proc :
        /\ \A j \in 1..Len(Entered(proc[r])) : Entered(proc[r])[j] \in Applicable
        /\ \A i, j \in 1..Len(Entered(proc[r])) :
              i < j => Entered(proc[r])[i] < Entered(proc[r])[j]
        /\ (Settled(proc[r]) /\ proc[r].route # 0 /\ proc[r].err = NoError) =>
              /\ Elems(Entered(proc[r])) = Applicable
              /\ Count(proc[r].trace, "handler") = 1

\* An entry filtered to SNS and a global entry: only the global one runs for
\* an SQS record.
C15_Witness ==
    /\ phase = "done" /\ shape = "sqs" /\ N = 1
    /\ Len(middlewareEntries) = 2
    /\ middlewareEntries[1].filter = "sns" /\ middlewareEntries[2].filter = Undefined
    /\ proc[1].trace = <<Ev("before", 2), Ev("handler", 1), Ev("after", 2)>>

\* The number of times the middleware registered as m was invoked for record r.
Invocations(r, m) ==
    Cardinality({j \in 1..Len(proc[r].trace) : proc[r].trace[j] = Ev("before", m)})

RECURSIVE Sum(_, _)
Sum(f, n) == IF n = 0 THEN 0 ELSE f[n] + Sum(f, n - 1)

\* The instance a reference names.
Instance(ref) == contexts[ref.rec].made[ref.slot]

\* The reads of record r made by the functions of its chain.
ChainReads(r) ==
    SelectSeq(contexts[r].reads,
              LAMBDA x : proc[r].trace[x.pos].op \in {"before", "after", "handler"})

\* The handler of the route of record r has been called.
HandlerRan(r) == Count(proc[r].trace, "handler") = 1

\* C16 as stated (SpecStore): once a batch of N records that each match a
\* route has been processed, every applicable middleware has been invoked
\* exactly once for each of the N records.
C16_OncePerRecordAlways ==
    (phase = "done" /\ \A r \in 1..N : ~Unmatched(r)) =>
        \A r \in 1..N : \A m \in Applicable : Invocations(r, m) = 1

\* C16 amended (SpecStore).  For a batch of N records that each match a
\* route, every applicable middleware is invoked at most once per record and
\* exactly once for each record whose handler is reached, hence N times in
\* all when the handler of every record is; and it is invoked with that
\* record's context: what it reads and what it writes goes to the SQS context
\* created for that record.
C16_MiddlewareOncePerRecord ==
    (proc # <<>> /\ \A r \in 1..N : ~Unmatched(r)) =>
        /\ \A r \in 1..N : \A m \in Applicable :
              /\ Invocations(r, m) <= 1
              /\ HandlerRan(r) => Invocations(r, m) = 1
        /\ (\A r \in 1..N : HandlerRan(r)) =>
              \A m \in Applicable :
                  Sum([r \in 1..N |-> Invocations(r, m)], N) = N
        /\ \A r \in 1..N :
              /\ \A j \in 1..Len(ChainReads(r)) :
                    /\ ChainReads(r)[j].ref = contexts[r].ctx
                    /\ ChainReads(r)[j].ref.rec = r
                    /\ Instance(ChainReads(r)[j].ref).type = "sqs"
              /\ \A m \in Applicable :
                    (middlewareEntries[m].kind = "writer" /\ Invocations(r, m) = 1) =>
                        Instance(contexts[r].ctx).k1 \in
                            {Written(r, w) : w \in Applicable}

C16_Witness ==
    /\ phase = "done"
    /\ mode = "parallel"
    /\ N = 2
    /\ \A r \in 1..N : ~Unmatched(r) /\ proc[r].st = "resolved"
    /\ Len(middlewareEntries) = 2
    /\ middlewareEntries[1].kind = "writer"
    /\ middlewareEntries[2].kind = "reader"
    /\ \A r \in 1..N : Len(ChainReads(r)) = 4

\* The record that wrote a value.
WrittenBy(v) == v \div 10

\* The values the functions of record r got from get(k1) and get(k2).
Observed(r) ==
    {contexts[r].reads[j].k1 : j \in 1..Len(contexts[r].reads)} \cup
    {contexts[r].reads[j].k2 : j \in 1..Len(contexts[r].reads)}

\* The references the call of record r passes to user functions.
Given(r) == {contexts[r].ctx, contexts[r].ectx} \ {NoRef}

\* C17 (SpecStore).  Store isolation: whatever the mode and the interleaving
\* of the records' steps, a value that a function of a record gets with
\* get(k) is undefined or was set while that same record was processed, and no
\* context is given to the functions of two records; nothing is left of the
\* contexts once the invocation has returned.
C17_StoreIsolation ==
    /\ \A r \in DOMAIN contexts :
          /\ \A v \in Observed(r) : v = 0 \/ WrittenBy(v) = r
          /\ \A ref \in Given(r) : ref.rec = r
          /\ \A j \in 1..Len(contexts[r].made) : \A k \in {"k1", "k2"} :
                contexts[r].made[j][k] = 0 \/ WrittenBy(contexts[r].made[j][k]) = r
    /\ phase = "idle" => contexts = <<>>

C17_Witness ==
    /\ phase = "done"
    /\ mode = "parallel"
    /\ outOfOrder
    /\ N = 2
    /\ \A r \in 1..N :
          \E j \in 1..Len(contexts[r].reads) :
              /\ contexts[r].reads[j].k1 = Written(r, 1)
              /\ contexts[r].reads[j].k2 = Written(r, 0)

Max(S) == CHOOSE x \in S : \A y \in S : y <= x

\* The steps of the chain of record r before position pos that set key.
Setters(r, pos, key) ==
    {j \in 1..(pos - 1) :
        LET e == proc[r].trace[j]
        IN  IF key = "k1"
            THEN e.op = "before" /\ middlewareEntries[e.at].kind = "writer"
            ELSE e.op = "handler"}

\* The value of the most recent set(key, .) by a step of the chain of record r
\* before position pos; 0, undefined, when there is none.
LastSet(r, pos, key) ==
    IF Setters(r, pos, key) = {} THEN 0
    ELSE LET e == proc[r].trace[Max(Setters(r, pos, key))]
         IN  IF key = "k1" THEN Written(r, e.at) ELSE Written(r, 0)

\* C18 (SpecStore).  Read-your-writes within one record: what a middleware or
\* the handler gets with get(k) is the value of the most recent set(k, .) by
\* an earlier step of the chain of the same record (a value set before next()
\* is read by the middleware after it and by the handler, the value set by
\* the handler is read by the after-phases), and undefined when no earlier
\* step has set k.
C18_ReadYourWrites ==
    \A r \in DOMAIN contexts :
        \A j \in 1..Len(ChainReads(r)) :
            LET x == ChainReads(r)[j]
            IN  /\ x.k1 = LastSet(r, x.pos, "k1")
                /\ x.k2 = LastSet(r, x.pos, "k2")

C18_Witness ==
    /\ Len(middlewareEntries) = 2
    /\ \A m \in 1..2 : middlewareEntries[m].kind = "writer"
    /\ \E r \in DOMAIN contexts :
          /\ proc[r].st = "resolved"
          /\ \E j, k \in 1..Len(ChainReads(r)) :
                /\ proc[r].trace[ChainReads(r)[j].pos].op = "handler"
                /\ ChainReads(r)[j].k1 = Written(r, 2)
                /\ ChainReads(r)[j].k2 = 0
                /\ proc[r].trace[ChainReads(r)[k].pos] = Ev("after", 1)
                /\ ChainReads(r)[k].k1 = Written(r, 2)
                /\ ChainReads(r)[k].k2 = Written(r, 0)

\* The types of the Context instances created for record r, in creation order.
MadeTypes(r) == [j \in 1..Len(contexts[r].made) |-> contexts[r].made[j].type]

\* The error handler has been called for record r.
ErrorHandled(r) == ErrorHandlerCalls(proc[r]) = 1

\* What the error handler of record r got from get(k1) and get(k2).
ErrorReads(r) ==
    SelectSeq(contexts[r].reads, LAMBDA x : proc[r].trace[x.pos].op = "onError")

Tags == {"sqs", "sns", "event", "dynamodb", "unknown"}

\* detectEventType has been applied to the event.
Detected == result # NoResult

\* C20 as stated (SpecDetect): for every input value, a Records list whose
\* first element is null included, detectEventType does not throw and returns
\* one of the five tags, without a side effect on the event or on the router.
C20_DetectNeverThrows ==
    Detected =>
        /\ result.returns \in Tags
        /\ result.error = NoError
        /\ payload \in Payloads
        /\ routes = <<>> /\ middlewareEntries = <<>>

\* The first record of the event is an object with the given property value.
FirstHas(event, field, value) ==
    /\ event.kind = "object"
    /\ event.Records = "list"
    /\ event.first.kind = "object"
    /\ event.first[field] = value

\* The shape the stated precedence gives to an event.
ShapeByPrecedence(event) ==
    IF FirstHas(event, "eventSource", "aws:sqs") THEN "sqs"
    ELSE IF FirstHas(event, "Sns", "objectWithTopicArn") THEN "sns"
    ELSE IF FirstHas(event, "eventSource", "aws:dynamodb") THEN "dynamodb"
    ELSE IF event.kind = "object" /\ event.source /\ event.detailType /\ event.detail
         THEN "event"
    ELSE "unknown"

\* C21 as stated (SpecDetect): the tag detectEventType gives to an event is
\* the earliest shape, in the order SQS, SNS, DynamoDB, EventBridge, whose
\* test the event satisfies, the tests on the records looking at the first
\* record only, and unknown when it satisfies none.
C21_FixedPrecedence ==
    Detected => result = Returned(ShapeByPrecedence(payload))

\* The processing of record r has started: a context has been looked for, or
\* one of the user's functions has run for it.
Started(r) == proc[r].st # "pending" \/ proc[r].trace # <<>>

\* The user functions of the given kind that have run for record r.
Ran(r, op) == Count(proc[r].trace, op)

\* C22 (SpecStore).  Sequential ordering: in sequential mode, whenever the
\* processing of a record has started (a middleware, its handler, the
\* not-found handler or the error handler has run for it), the processing of
\* every record before it in the list has completed, however many steps
\* that one took; and no record after one that failed is ever started.
C22_SequentialOrdering ==
    mode = "sequential" =>
        \A i, j \in 1..N :
            (i < j /\ Started(j)) => proc[i].st = "resolved"

C22_Witness ==
    /\ mode = "sequential"
    /\ N = 2
    /\ proc[1].st = "resolved"
    /\ Ran(1, "before") = 2 /\ Ran(1, "handler") = 1 /\ Ran(1, "after") = 2
    /\ Running(proc[2])
    /\ Ran(2, "before") = 1 /\ Ran(2, "handler") = 0

\* C23 (SpecMw).  Concurrent scheduling: in concurrent mode the processing of
\* every record of the batch has been started by the time the batch call first
\* suspends, so that no record waits for an earlier one whose middleware or
\* handler is suspended; the records then complete in any order.
C23_ConcurrentScheduling ==
    mode = "parallel" => \A r \in 1..N : Started(r)

C23_Witness ==
    /\ mode = "parallel"
    /\ phase = "executing"
    /\ N = 3
    /\ Running(proc[1]) /\ Ran(1, "handler") = 0
    /\ Running(proc[2])
    /\ proc[3].st = "resolved" /\ Ran(3, "handler") = 1
    /\ outOfOrder

\* The number of calls of the not-found handler in the invocation.
NotFoundCalls == Sum([r \in DOMAIN proc |-> Ran(r, "notFound")], Len(proc))

\* C24 as stated (SpecShapes): when an event of no known shape has been
\* handled by a router with a not-found handler, the not-found handler has
\* been called exactly once and the invocation has resolved without an error.
C24_UnknownHandledGracefully ==
    (phase = "done" /\ shape = "unknown" /\ notFoundHandler) =>
        /\ result.returns # "throws"
        /\ result.error = NoError
        /\ NotFoundCalls = 1

\* The field of the matcher of an EventBridge route is present.
Present(route, field) == route.options /\ route[field] \notin {Undefined, ""}

\* Every present field of the matcher of the route equals the event's.
MatchesEvent(route, event) ==
    \A field \in {"source", "detailType"} :
        Present(route, field) => route[field] = event[field]

\* The first route of the EventBridge router that matches the event; 0 when
\* none does.
FirstMatching(event) ==
    LET ks == {k \in 1..Len(routers.event) : MatchesEvent(routers.event[k], event)}
    IN  IF ks = {} THEN 0 ELSE Min(ks)

\* C25 (SpecEvents).  Multi-field EventBridge matching: the event is
\* dispatched to the first route every present matcher field of which equals
\* the event's field, absent fields (and a route without a matcher) matching
\* every event; it is that route's handler that runs, and no handler runs
\* when no route matches.
C25_MultiFieldMatching ==
    (shape = "event" /\ proc # <<>>) =>
        /\ proc[1].route = FirstMatching(records[1])
        /\ \A j \in 1..Len(proc[1].trace) :
              proc[1].trace[j].op = "handler" =>
                  proc[1].trace[j].at = FirstMatching(records[1])
        /\ FirstMatching(records[1]) = 0 => Ran(1, "handler") = 0
        /\ (phase = "done" /\ FirstMatching(records[1]) # 0) => Ran(1, "handler") = 1

C25_Witness ==
    /\ shape = "event"
    /\ phase = "done"
    /\ Len(routers.event) = 2
    /\ routers.event[1] = [options |-> TRUE, source |-> "s1", detailType |-> "d1"]
    /\ routers.event[2] = [options |-> TRUE, source |-> "s1", detailType |-> Undefined]
    /\ records[1].source = "s1" /\ records[1].detailType = "d2"
    /\ proc[1].trace = <<Ev("handler", 2)>>

\* The route whose handler was called for record r; 0 when none was.
Dispatched(r) ==
    IF Ran(r, "handler") = 0 THEN 0
    ELSE (CHOOSE e \in Elems(proc[r].trace) : e.op = "handler").at

\* C26 as stated (SpecStream): a DynamoDB route registered with an eventName
\* matcher is given only records with that eventName, so with a route for
\* INSERT and then one for MODIFY a MODIFY record goes to the second handler
\* and the first is not invoked.
C26_EventNameMatching ==
    shape = "dynamodb" =>
        \A r \in 1..N :
            Dispatched(r) # 0 =>
                LET route == routers.dynamodb[Dispatched(r)]
                IN  route.eventName # Undefined => route.eventName = records[r].eventName

\* The batch call has returned its response.
BatchReturned == phase = "done" /\ result = Returned("batch")

\* C27 (SpecMw).  No cancellation and no timeout: the batch returns its
\* response only when no record is being processed any more, so that a record
\* whose middleware or handler never settles keeps the invocation from ever
\* returning, in concurrent mode also when every other record has completed.
C27_NoReturnWhileProcessing ==
    /\ BatchReturned => \A r \in 1..N : ~Running(proc[r])
    /\ (phase = "executing" /\ \E r \in 1..N : Running(proc[r])) =>
            result = NoResult /\ response = <<>>

C27_Witness ==
    /\ mode = "parallel"
    /\ phase = "executing"
    /\ N = 3
    /\ Running(proc[1]) /\ Ran(1, "before") = 1 /\ Ran(1, "handler") = 0
    /\ \A r \in 2..N : Settled(proc[r])
    /\ result = NoResult

\* The route lists of the four routers and the middleware list.
Lists == <<routes, routers.sns, routers.event, routers.dynamodb, middlewareEntries>>

\* new is old with one entry added at the end.
AppendedOne(old, new) == Len(new) = Len(old) + 1 /\ SubSeq(new, 1, Len(old)) = old

\* C28 (SpecRegister).  The route lists and the middleware list are
\* append-only: a step changes at most one of them, by one entry added at the
\* end with the earlier entries and their order kept; and the steps of an
\* invocation, from its start to its return, change none of them and neither
\* the registered error handler nor the not-found handler.
C28_AppendOnly ==
    [][/\ \A i \in 1..5 : Lists'[i] = Lists[i] \/ AppendedOne(Lists[i], Lists'[i])
       /\ Cardinality({i \in 1..5 : Lists'[i] # Lists[i]}) <= 1
       /\ (phase # "idle" \/ phase' # "idle") =>
             /\ Lists' = Lists
             /\ errorHandler' = errorHandler
             /\ notFoundHandler' = notFoundHandler]_vars

C28_Witness ==
    /\ phase = "done"
    /\ Len(routes) = 2 /\ routes[1] # routes[2]
    /\ Len(middlewareEntries) = 1
    /\ errorHandler
    /\ proc # <<>> /\ proc[1].route = 1

\* The decimal text of an integer.
RECURSIVE TextOfNatural(_)
TextOfNatural(n) ==
    IF n < 10 THEN <<DigitChars[n + 1]>>
    ELSE TextOfNatural(n \div 10) \o <<DigitChars[(n % 10) + 1]>>

TextOf(n) == IF n < 0 THEN <<"-">> \o TextOfNatural(0 - n) ELSE TextOfNatural(n)

\* The attribute value a is the encoding of the plain value x under its tag;
\* an attribute value of no supported tag stands for undefined.
RECURSIVE Encodes(_, _)
Encodes(a, x) ==
    /\ x.key = a.key
    /\ CASE a.tag \in {"S", "B", "str"} -> x.t = "string" /\ x.s = a.s
         [] a.tag \in {"N", "num"} -> x.t = "number" /\ TextOf(x.n) = a.digits
         [] a.tag = "NULL" -> x.t = "null"
         [] a.tag = "BOOL" -> x.t = "boolean" /\ x.b = a.b
         [] a.tag \in {"SS", "NS", "BS", "L"} ->
               /\ x.t = "array"
               /\ Len(x.items) = Len(a.items)
               /\ \A i \in 1..Len(a.items) : Encodes(a.items[i], x.items[i])
         [] a.tag = "M" ->
               /\ x.t = "object"
               /\ x.proto = "Object.prototype"
               /\ Len(x.items) = Len(a.items)
               /\ \A i \in 1..Len(a.items) : Encodes(a.items[i], x.items[i])
         [] OTHER -> x.t = "undefined"

\* unmarshallValue has been applied to the attribute value.
Unmarshalled == result # NoResult

\* C29 as stated (SpecUnmarshall): for an attribute value of every
\* supported tag, unmarshallValue returns the plain value the attribute value
\* is the encoding of, element by element for sets and lists and attribute by
\* attribute for maps, and undefined for an attribute value of an unknown tag;
\* it does not throw.
C29_UnmarshallRoundTrip ==
    Unmarshalled =>
        /\ result.error = NoError
        /\ Encodes(payload, result.value)

\* The call p has run the step op of the chain entry m.
Did(p, op, m) == \E j \in 1..Len(p.trace) : p.trace[j] = Ev(op, m)

\* The chain entries that throw before calling next() and were invoked in p.
ThrewBeforeNext(p) ==
    {m \in 1..Len(Chain) : KindAt(m) = "throws" /\ Did(p, "before", m)}

\* The handler of the call p threw: nothing of the chain ran after it and the
\* call failed with its error, or a catch block ran right after it.
HandlerThrew(p) ==
    \E h \in 1..Len(ChainTrace(p)) :
        /\ ChainTrace(p)[h].op = "handler"
        /\ IF h < Len(ChainTrace(p))
              THEN ChainTrace(p)[h + 1].op = "caught"
              ELSE ChainError(p) = "E"

\* The chain entries that await next() inside try/catch.
Catching == {m \in 1..Len(Chain) : KindAt(m) \in {"guard", "swallow"}}

\* The chain entries that await next() without a guard and run code after it.
Unguarded == {m \in 1..Len(Chain) : KindAt(m) \in {"once", "twice"}}

\* A chain entry strictly between i and m catches an error and resolves.
SwallowedBetween(i, m) == \E k \in (i + 1)..(m - 1) : KindAt(k) = "swallow"

\* C30 as stated (SpecChain): when a middleware throws before calling
\* next(), no later middleware and not the handler is invoked and the
\* after-phase of every enclosing middleware that awaits next() without a
\* guard is not executed; when the handler throws, every enclosing middleware
\* that awaits next() inside try/catch observes the rejection.
C30_UnwindsEveryEnclosing ==
    \A r \in 1..N :
        Settled(proc[r]) =>
            /\ \A m \in ThrewBeforeNext(proc[r]) :
                  /\ Count(proc[r].trace, "handler") = 0
                  /\ \A j \in (m + 1)..Len(Chain) : ~Did(proc[r], "before", j)
                  /\ \A i \in Unguarded : i < m => ~Did(proc[r], "after", i)
            /\ HandlerThrew(proc[r]) =>
                  \A i \in Catching : Did(proc[r], "caught", i)

\* C30 as amended (SpecChain).  When a middleware throws before calling
\* next(), no later middleware and not the handler is invoked, and the
\* after-phase of an enclosing middleware that awaits next() without a guard
\* is not executed unless a middleware between the two catches the error and
\* resolves; when the handler throws, an enclosing middleware that awaits
\* next() inside try/catch observes the rejection unless a middleware it
\* encloses has caught the error and resolved.
C30_ErrorUnwinding ==
    \A r \in 1..N :
        Settled(proc[r]) =>
            /\ \A m \in ThrewBeforeNext(proc[r]) :
                  /\ Count(proc[r].trace, "handler") = 0
                  /\ \A j \in (m + 1)..Len(Chain) : ~Did(proc[r], "before", j)
                  /\ \A i \in Unguarded :
                        (i < m /\ ~SwallowedBetween(i, m)) => ~Did(proc[r], "after", i)
            /\ HandlerThrew(proc[r]) =>
                  \A i \in Catching :
                      ~SwallowedBetween(i, Len(Chain) + 1) => Did(proc[r], "caught", i)

\* A middleware that awaits next(), one that awaits it inside try/catch and
\* rethrows, and one that throws before next(): the third stops the chain,
\* the second observes the rejection, the first does not run its after-phase.
C30_Witness ==
    /\ N = 1
    /\ Len(Chain) = 3
    /\ KindAt(1) = "once" /\ KindAt(2) = "guard" /\ KindAt(3) = "throws"
    /\ proc[1].st = "rejected"
    /\ ChainTrace(proc[1]) = <<Ev("before", 1), Ev("before", 2),
                               Ev("before", 3), Ev("caught", 2)>>


\* C31 (SpecStore).  The call index of a chain belongs to one chain
\* invocation: when the records of a batch run concurrently through the same
\* middleware functions, each of which calls next() once, no record fails
\* with 'next() called multiple times', whatever the interleaving of the
\* chains; the call index of a record's chain is the index of the entry that
\* chain has reached, whatever the chains of the other records have reached.
C31_PrivateCallIndex ==
    \A r \in 1..N :
        /\ proc[r].err # "P"
        /\ proc[r].handled # "P"
        /\ (proc[r].st = "chain" /\ proc[r].err = NoError /\ Top(proc[r]).phase = "start")
               => proc[r].currentIndex = Top(proc[r]).index

\* Two records run concurrently through two middleware; the chain of the
\* second has reached the handler while the chain of the first is at the
\* first middleware, and the second then settles without an error.
C31_Witness ==
    /\ mode = "parallel"
    /\ N = 2
    /\ Len(middlewareEntries) = 2
    /\ proc[1].st = "chain" /\ proc[1].currentIndex = 0
    /\ proc[2].st = "resolved" /\ proc[2].currentIndex = 2
    /\ Ran(2, "handler") = 1


\* The batch engine has been given a list of records and has not been
\* given the next one yet.
EngineRunning == phase \in {"executing", "done"} /\ shape \in {"sqs", "dynamodb"}

\* C32 (Spec).  Given an empty list of records the batch engine calls
\* nothing (no processRecord call is made, so that no handler, middleware,
\* not-found handler or error handler runs and no context is created) and
\* returns {batchItemFailures: []}, whatever is registered.
C32_EmptyBatch ==
    (EngineRunning /\ N = 0) =>
        /\ proc = <<>>
        /\ contexts = <<>>
        /\ phase = "done" => (result = Returned("batch") /\ response = <<>>)

\* An empty list has been given to a router with a route, an error handler
\* and a not-found handler, and the response has been returned.
C32_Witness ==
    /\ EngineRunning /\ N = 0
    /\ phase = "done"
    /\ routes # <<>> /\ errorHandler /\ notFoundHandler
    /\ result = Returned("batch")


\* C33 (SpecStore).  For a record that matches no route no middleware is
\* invoked, nor a handler nor the error handler: the not-found handler is
\* called exactly once for the record when one is registered, before anything
\* else of the record's processing, and nothing is called when none is; this
\* holds too when the not-found handler throws.
C33_NotFoundSkipsMiddleware ==
    \A r \in 1..N :
        (Unmatched(r) /\ Started(r)) =>
            /\ Ran(r, "before") = 0 /\ Ran(r, "after") = 0
            /\ Ran(r, "handler") = 0 /\ Ran(r, "onError") = 0
            /\ proc[r].trace = IF notFoundHandler THEN <<Ev("notFound", 0)>> ELSE <<>>

\* Behind two middleware and with an error handler registered, the
\* not-found handler has been called for a record of a queue without a route
\* and has thrown, while a record of the routed queue went through the chain.
C33_Witness ==
    /\ N = 2
    /\ Len(middlewareEntries) = 2
    /\ errorHandler /\ notFoundHandler
    /\ ~Unmatched(1) /\ Ran(1, "before") = 2
    /\ Unmatched(2) /\ proc[2].st = "rejected" /\ proc[2].err = "N"
    /\ proc[2].trace = <<Ev("notFound", 0)>>


\* C34 (SpecShapes).  An event classified as of no known shape goes no
\* further: no processing of a record is started for it, so that no route
\* handler, middleware or error handler runs and no context of theirs is
\* created, no batch response is returned, and the invocation ends either
\* with a call of the not-found handler or with a rejection.
C34_UnknownIsTerminal ==
    shape = "unknown" =>
        /\ \A r \in DOMAIN proc :
              /\ Ran(r, "handler") = 0 /\ Ran(r, "onError") = 0
              /\ Ran(r, "before") = 0 /\ Ran(r, "after") = 0
        /\ mode = "none" /\ seqIndex = 0
        /\ response = <<>>
        /\ result.returns # "batch"
        /\ phase = "done" => (NotFoundCalls = 1 \/ result.returns = "throws")

\* An event of no known shape has been handled by a router with routes of
\* the four shapes, a middleware, an error handler and a not-found handler.
C34_Witness ==
    /\ shape = "unknown"
    /\ phase = "done"
    /\ routes # <<>> /\ routers.sns # <<>> /\ routers.event # <<>>
    /\ routers.dynamodb # <<>>
    /\ middlewareEntries # <<>> /\ errorHandler /\ notFoundHandler
    /\ result = Rejected("U")


\* The call index of every chain that is running before and after the step
\* has not decreased.
IndexGrows ==
    \A r \in DOMAIN proc :
        (r \in DOMAIN proc' /\ proc[r].st = "chain" /\ proc'[r].st # "pending")
            => proc'[r].currentIndex >= proc[r].currentIndex

\* C35 (SpecChain).  Within one chain invocation every middleware and the
\* handler is invoked at most once, at any moment of the chain and whatever
\* the middleware do with next() (never call it, call it once, call it twice,
\* catch what it throws and rethrow or not), and the call index of the chain
\* never decreases, staying within the entries of the chain.
C35_AtMostOnce ==
    /\ [](\A r \in DOMAIN proc :
             /\ NothingRunTwice(proc[r])
             /\ proc[r].currentIndex <= Len(Chain))
    /\ [][IndexGrows]_vars

\* A middleware that catches what next() throws, one that calls next() twice
\* and one that does not call it, in front of the handler: each has run once,
\* the second next() has thrown, and the record has been processed.
C35_Witness ==
    /\ N = 1
    /\ Len(Chain) = 3
    /\ KindAt(1) = "swallow" /\ KindAt(2) = "twice" /\ KindAt(3) = "none"
    /\ proc[1].st = "resolved"
    /\ proc[1].currentIndex = 3
    /\ ChainTrace(proc[1]) = <<Ev("before", 1), Ev("before", 2), Ev("before", 3),
                               Ev("handler", 1), Ev("nextAgain", 2),
                               Ev("caught", 1), Ev("after", 1)>>


\* C36 (SpecLive).  When every call of a middleware, a handler, the
\* not-found handler and the error handler completes, every invocation of
\* the Lambda handler finishes, in sequential and in concurrent mode: once
\* the batch engine has started on an event it eventually returns, and the
\* promise of the Lambda handler is then settled.
C36_InvocationTerminates ==
    /\ \A m \in {"sequential", "parallel"} :
          (phase = "executing" /\ mode = m) ~> (phase = "done" /\ mode = m)
    /\ [](phase = "done" => result # NoResult)

\* A concurrent batch of two records behind a middleware that calls next()
\* twice has returned: both records failed, the second before the first.
C36_Witness ==
    /\ phase = "done"
    /\ mode = "parallel"
    /\ N = 2
    /\ outOfOrder
    /\ Len(middlewareEntries) = 1 /\ middlewareEntries[1].kind = "twice"
    /\ errorHandler
    /\ \A r \in 1..N : proc[r].st = "rejected" /\ Ran(r, "onError") = 1
    /\ result = Returned("batch")


\* The message ids of the records of the event.
MessageIds == {records[r].messageId : r \in 1..N}

\* C37 (Spec).  The message ids of the records of a batch being distinct,
\* the failure list of the response holds message ids of records of that
\* batch only and holds none twice, in sequential and in concurrent mode.
C37_FailuresWellFormed ==
    (phase = "done" /\ shape = "sqs") =>
        /\ \A i, j \in 1..N : i # j => records[i].messageId # records[j].messageId
        /\ \A i \in 1..Len(response) : response[i] \in MessageIds
        /\ \A i, j \in 1..Len(response) : i # j => response[i] # response[j]

\* A concurrent batch of three records of one queue has returned with the
\* first and the third record failed.
C37_Witness ==
    /\ phase = "done"
    /\ mode = "parallel"
    /\ N = 3
    /\ \A r \in 1..N : records[r].queue = "q1"
    /\ response = <<1, 3>>


\* A sequential batch has returned, of a router with an error handler.
SequentialDone == phase = "done" /\ mode = "sequential" /\ errorHandler

\* C38 as stated (Spec): in sequential mode the error handler is called
\* exactly once for the record whose processing threw and for no other
\* record.
C38_HandlerCalledForTheFailure ==
    SequentialDone =>
        \A k \in 1..N : FirstFailed(k) =>
            /\ Ran(k, "onError") = 1
            /\ \A j \in 1..N : j # k => Ran(j, "onError") = 0

\* C38 as amended (Spec).  In sequential mode the error handler is called
\* for no record but the one whose processing threw, at no moment of the
\* batch: not for the records before it, which succeeded, and not for the
\* records after it, which are reported as failed without a call having been
\* made for them.  For the record that threw it is called exactly once when
\* the throw came out of the record's chain, and not at all when the record
\* matches no route and the not-found handler threw.
C38_HandlerOnlyForChainFailure ==
    (mode = "sequential" /\ errorHandler) =>
        /\ \A r \in 1..N :
              Ran(r, "onError") = IF proc[r].handled # NoError THEN 1 ELSE 0
        /\ phase = "done" =>
              \A k \in 1..N : FirstFailed(k) =>
                  /\ Ran(k, "onError") = IF Unmatched(k) THEN 0 ELSE 1
                  /\ \A j \in 1..(k - 1) : Ran(j, "onError") = 0
                  /\ \A j \in (k + 1)..N :
                        proc[j] = NewCall /\ Ran(j, "onError") = 0 /\ Reported(j)

\* The handler of the second of three records threw: the error handler was
\* called once, for that record, and the third record is reported without
\* having been processed.
C38_Witness ==
    /\ SequentialDone
    /\ N = 3
    /\ proc[1].st = "resolved" /\ Ran(1, "handler") = 1
    /\ proc[2].trace = <<Ev("handler", 1), Ev("onError", 0)>> /\ proc[2].st = "rejected"
    /\ proc[3] = NewCall
    /\ response = <<2, 3>>


\* The route of the first record of an SNS event, 0 for none.
FirstTopicRoute == matchFrom(routers.sns, records[1].topic, 1)

\* C39 (SpecSns).  Of an SNS event only the first record is routed: one call
\* is made, for the route the first record matches; what runs is the handler
\* of that route, once, or, when the first record matches none, the
\* not-found handler, once if one is registered; nothing is called for a
\* further record, whatever route it would match, and no record is reported,
\* since the Lambda handler returns no batch response.
C39_OnlyFirstSnsRecord ==
    (shape = "sns" /\ N >= 1) =>
        /\ Len(proc) = 1
        /\ proc[1].route = FirstTopicRoute
        /\ \A j \in 1..Len(proc[1].trace) :
              /\ proc[1].trace[j].op = "handler" => proc[1].trace[j].at = FirstTopicRoute
              /\ proc[1].trace[j].op = "notFound" => FirstTopicRoute = 0
        /\ Ran(1, "handler") <= 1 /\ Ran(1, "notFound") <= 1
        /\ (phase = "done" /\ proc[1].st = "resolved") =>
              /\ Ran(1, "handler") = IF FirstTopicRoute # 0 THEN 1 ELSE 0
              /\ Ran(1, "notFound") = IF FirstTopicRoute = 0 /\ notFoundHandler THEN 1 ELSE 0
        /\ response = <<>>
        /\ result.returns # "batch"

\* An event with a record of t1 and a record of t2 has been handled by a
\* router with a route for t1 and a route for t2: the handler of the first
\* route has run and nothing else.
C39_Witness ==
    /\ shape = "sns" /\ phase = "done"
    /\ N = 2
    /\ records[1].topic = "t1" /\ records[2].topic = "t2"
    /\ Len(routers.sns) = 2
    /\ routers.sns[1].matcher = "t1" /\ routers.sns[2].matcher = "t2"
    /\ notFoundHandler
    /\ proc = <<[NewCall EXCEPT !.st = "resolved", !.route = 1, !.currentIndex = 0,
                                !.trace = <<Ev("handler", 1)>>]>>
    /\ result = Returned("undefined")


====
